---------------------------- MODULE Ds18b20Proofs ----------------------------
(***************************************************************************)
(* Type correctness of the temperature loop; what its scans find: no       *)
(* sensor twice, both of two, and none that is not there even with one     *)
(* inverted sample; and what it reports.  For ROM codes, CRCs and sets of  *)
(* sensors of any size.                                                    *)
(***************************************************************************)
EXTENDS Ds18b20, SequenceTheorems, FiniteSetTheorems, TLAPS

LEMMA RomTypes ==
    /\ RomBits \in Nat /\ BitNo \subseteq Nat /\ Sensors \subseteq Rom
    /\ \A b \in 0 .. RomBits : b # RomBits => b \in BitNo
BY RomAssumption DEF RomAssumption, BitNo, Sensors

LEMMA DirectionType ==
    ASSUME TypeOK, NEW f \in BOOLEAN, NEW g \in BOOLEAN, bit < RomBits
    PROVE  /\ bit \in BitNo
           /\ Direction(f, g) \in BOOLEAN
           /\ [address EXCEPT ![bit] = Direction(f, g)] \in Rom
           /\ LastZero(f, g) \in BitNo \cup {None}
<1>1. bit \in BitNo
  BY RomTypes DEF TypeOK
<1>2. address[bit] \in BOOLEAN
  BY <1>1 DEF TypeOK, Rom
<1>3. Direction(f, g) \in BOOLEAN
  BY <1>2 DEF Direction
<1>4. [address EXCEPT ![bit] = Direction(f, g)] \in Rom
  BY <1>1, <1>3 DEF TypeOK, Rom
<1> QED BY <1>1, <1>3, <1>4 DEF LastZero, TypeOK

LEMMA BufferType ==
    ASSUME NEW s \in Seq(Reading)
    PROVE  Buffer(s) \in Seq(Reading) /\ Len(Buffer(s)) <= BufSize
<1> DEFINE n == IF Len(s) < BufSize THEN Len(s) ELSE BufSize
<1>1. n \in 0 .. Len(s) /\ n <= BufSize
  BY TimeAssumption, LenProperties DEF TimeAssumption
<1>2. SubSeq(s, 1, n) \in Seq(Reading) /\ Len(SubSeq(s, 1, n)) = n
  BY <1>1, SubSeqProperties
<1> QED BY <1>1, <1>2 DEF Buffer

LEMMA FlipsType == \A b \in BOOLEAN : Flips(b) \in {0, 1}
BY DEF Flips

LEMMA GlitchType ==
    ASSUME TypeOK, NEW n \in Nat, Glitch(n)
    PROVE  glitches' \in 0 .. MaxGlitches
BY RomAssumption DEF RomAssumption, TypeOK, Glitch

LEMMA TypeInit == Init => TypeOK
<1> SUFFICES ASSUME Init PROVE TypeOK
  OBVIOUS
<1>1. address \in Rom
  BY DEF Init, ScanInit, Rom
<1>2. scan = "ok" /\ lastDiscrepancy = None /\ lastZero = None /\ complete = FALSE /\ bit = 0
  BY DEF Init, ScanInit
<1>3. addresses = <<>> /\ temps = <<>> /\ report = <<>>
  BY DEF Init, ScanInit
<1>4. /\ addresses \in Seq(Rom) /\ temps \in Seq(Reading) /\ report \in Seq(Reading)
      /\ Len(addresses) = 0 /\ Len(temps) = 0 /\ Len(report) = 0
  BY <1>3, EmptySeq
<1>5. plugged \subseteq Sensors /\ active = {} /\ busy = {} /\ sampled = {} /\ dead \subseteq Sensors
  BY DEF Init, ScanInit
<1>6. glitches = 0 /\ hotplugs = 0 /\ quiet = TRUE /\ calm = TRUE /\ now = 0 /\ cursor = 1
  BY DEF Init, ScanInit
<1>7. phase = "tick" /\ failure = "none"
  BY DEF Init
<1>8. /\ Len(addresses) <= MaxSensors /\ Len(temps) < cursor /\ Len(report) <= BufSize
      /\ bit \in 0 .. RomBits /\ cursor \in 1 .. (MaxSensors + 1)
      /\ glitches \in 0 .. MaxGlitches /\ hotplugs \in 0 .. MaxHotplugs
      /\ now \in 0 .. (TimeLimit + 1)
  BY <1>2, <1>4, <1>6, RomAssumption, TimeAssumption DEF RomAssumption, TimeAssumption
<1> QED BY <1>1, <1>2, <1>4, <1>5, <1>6, <1>7, <1>8 DEF TypeOK

LEMMA ScanTypes ==
    ASSUME TypeOK, Scan
    PROVE  TypeOK'
<1> USE RomAssumption DEF RomAssumption, cycleVars, noiseVars
<1>1. CASE SearchComplete
  BY <1>1 DEF SearchComplete, Scan, TypeOK
<1>2. CASE \E flip \in BOOLEAN : StartPass(flip)
  <2>1. PICK flip \in BOOLEAN : StartPass(flip)
    BY <1>2
  <2>2. glitches' \in 0 .. MaxGlitches
    BY <2>1, FlipsType, GlitchType DEF StartPass, ScanGlitch
  <2>3. quiet' \in BOOLEAN
    BY <2>1 DEF StartPass, ScanGlitch, TypeOK
  <2>4. lastZero' = None /\ bit' = 0 /\ active' = plugged
    BY <2>1 DEF StartPass
  <2>5. scan' \in {"bits", "ok"}
    BY <2>1 DEF StartPass
  <2> QED BY <2>1, <2>2, <2>3, <2>4, <2>5 DEF StartPass, ScanGlitch, Glitch, Scan, TypeOK
<1>3. CASE \E f, g \in BOOLEAN : SearchBit(f, g)
  <2>1. PICK f \in BOOLEAN, g \in BOOLEAN : SearchBit(f, g)
    BY <1>3
  <2> DEFINE idBit == BitSlot # f
             complement == ComplementSlot # g
  <2>2. idBit \in BOOLEAN /\ complement \in BOOLEAN
    BY DEF BitSlot, ComplementSlot
  <2>3. bit < RomBits
    BY <2>1 DEF SearchBit
  <2>4. address' = [address EXCEPT ![bit] = Direction(idBit, complement)]
    BY <2>1 DEF SearchBit
  <2>5. lastZero' = LastZero(idBit, complement)
    BY <2>1 DEF SearchBit
  <2>6. address' \in Rom /\ lastZero' \in BitNo \cup {None}
    BY <2>2, <2>3, <2>4, <2>5, DirectionType
  <2>7. glitches' \in 0 .. MaxGlitches
    BY <2>1, FlipsType, GlitchType DEF SearchBit, ScanGlitch
  <2>8. quiet' \in BOOLEAN
    BY <2>1 DEF SearchBit, ScanGlitch, TypeOK
  <2>9. active' \subseteq plugged' /\ bit' \in 0 .. RomBits
    BY <2>1, <2>3 DEF SearchBit, ScanGlitch, Glitch, TypeOK
  <2> QED BY <2>1, <2>6, <2>7, <2>8, <2>9 DEF SearchBit, ScanGlitch, Glitch, Scan, TypeOK
<1>4. CASE \E f, g \in BOOLEAN : NobodyAnswers(f, g)
  <2>1. PICK f \in BOOLEAN, g \in BOOLEAN : NobodyAnswers(f, g)
    BY <1>4
  <2>2. glitches' \in 0 .. MaxGlitches
    BY <2>1, FlipsType, GlitchType DEF NobodyAnswers, ScanGlitch
  <2>3. quiet' \in BOOLEAN
    BY <2>1 DEF NobodyAnswers, ScanGlitch, TypeOK
  <2> QED BY <2>1, <2>2, <2>3 DEF NobodyAnswers, ScanGlitch, Glitch, Scan, TypeOK
<1>5. CASE EndPass
  <2>1. addresses' \in Seq(Rom) /\ Len(addresses') <= MaxSensors
    <3>1. CASE CrcOk(address) /\ Len(addresses) < MaxSensors
      <4>1. addresses' = Append(addresses, address)
        BY <1>5, <3>1 DEF EndPass, Enumerated
      <4> QED BY <4>1, <3>1, AppendProperties DEF TypeOK
    <3>2. CASE ~(CrcOk(address) /\ Len(addresses) < MaxSensors)
      BY <1>5, <3>2 DEF EndPass, Enumerated, TypeOK
    <3> QED BY <3>1, <3>2
  <2>2. scan' \in {"TooManySensorsConnected", "next"}
    BY <1>5 DEF EndPass, Enumerated
  <2>3. complete' \in BOOLEAN /\ lastDiscrepancy' \in BitNo \cup {None}
    BY <1>5 DEF EndPass, TypeOK
  <2> QED BY <1>5, <2>1, <2>2, <2>3 DEF EndPass, Scan, TypeOK
<1>6. CASE ScanBusError
  BY <1>6 DEF ScanBusError, Scan, TypeOK
<1> QED BY <1>1, <1>2, <1>3, <1>4, <1>5, <1>6 DEF Scan, ScanStep

LEMMA LoopTypes ==
    ASSUME TypeOK, Loop
    PROVE  TypeOK'
<1> USE RomAssumption, TimeAssumption
    DEF RomAssumption, TimeAssumption, searchVars, noiseVars, cycleVars
<1>1. CASE StartCycle
  <2>1. CASE addresses = <<>>
    <3>1. Rescan /\ phase' = "scan"
      BY <1>1, <2>1 DEF StartCycle
    <3>2. address' \in Rom
      BY <3>1 DEF Rescan, Rom
    <3>3. addresses' \in Seq(Rom) /\ Len(addresses') = 0
      BY <3>1, EmptySeq DEF Rescan
    <3> QED BY <1>1, <3>1, <3>2, <3>3 DEF StartCycle, Rescan, TypeOK
  <2>2. CASE addresses # <<>>
    BY <1>1, <2>2 DEF StartCycle, TypeOK
  <2> QED BY <2>1, <2>2
<1>2. CASE Scan
  BY <1>2, ScanTypes
<1>3. CASE ScanReturns
  <2>1. /\ phase' \in {"convert", "stopped"}
        /\ failure' \in {failure, "TooManySensorsConnected", "OneWireError"}
    <3>1. CASE scan = "ok"
      BY <1>3, <3>1 DEF ScanReturns
    <3>2. CASE scan \in {"TooManySensorsConnected", "OneWireError"}
      BY <1>3, <3>2 DEF ScanReturns, Stop
    <3> QED BY <1>3, <3>1, <3>2 DEF ScanReturns, TypeOK
  <2> QED BY <1>3, <2>1 DEF ScanReturns, TypeOK
<1>4. CASE Convert
  BY <1>4 DEF Convert, TypeOK
<1>5. ASSUME NEW flip \in BOOLEAN, Sample(flip)
      PROVE  /\ glitches' \in 0 .. MaxGlitches /\ calm' \in BOOLEAN
             /\ UNCHANGED <<searchVars, plugged, hotplugs, quiet, busy, dead, sampled, report>>
  <2>1. glitches' \in 0 .. MaxGlitches
    BY <1>5, FlipsType, GlitchType DEF Sample
  <2> QED BY <1>5, <2>1 DEF Sample, Glitch, TypeOK
<1>6. CASE \E flip \in BOOLEAN : Converted(flip)
  <2>1. PICK flip \in BOOLEAN : Converted(flip)
    BY <1>6
  <2>2. temps' \in Seq(Reading) /\ Len(temps') = 0
    BY <2>1, EmptySeq DEF Converted
  <2> QED BY <2>1, <2>2, <1>5 DEF Converted, TypeOK
<1>7. CASE \E flip \in BOOLEAN, late \in 0 .. MaxLate : PollAgain(flip, late)
  <2>1. PICK flip \in BOOLEAN, late \in 0 .. MaxLate : PollAgain(flip, late)
    BY <1>7
  <2>2. now' \in 0 .. (TimeLimit + 1)
    BY <2>1 DEF PollAgain, TimedOut, TypeOK
  <2> QED BY <2>1, <2>2, <1>5 DEF PollAgain, TypeOK
<1>8. CASE \E flip \in BOOLEAN, late \in 0 .. MaxLate : ConversionTimeout(flip, late)
  <2>1. PICK flip \in BOOLEAN, late \in 0 .. MaxLate : ConversionTimeout(flip, late)
    BY <1>8
  <2> QED BY <2>1, <1>5 DEF ConversionTimeout, Stop, TypeOK
<1>9. CASE \E fails \in BOOLEAN : ReadSensor(fails)
  <2>1. PICK fails \in BOOLEAN : ReadSensor(fails)
    BY <1>9
  <2>2. glitches' \in 0 .. MaxGlitches
    BY <2>1, FlipsType, GlitchType DEF ReadSensor
  <2>3. cursor \in 1 .. Len(addresses) /\ Len(addresses) \in Nat
    BY <2>1, LenProperties DEF ReadSensor, TypeOK
  <2>4. addresses[cursor] \in Rom
    BY <2>3, ElementOfSeq DEF TypeOK
  <2> DEFINE r == [rom |-> addresses[cursor], fresh |-> addresses[cursor] \in sampled]
  <2>5. r \in Reading
    BY <2>4 DEF Reading
  <2>6. temps' \in Seq(Reading) /\ Len(temps') < cursor'
    <3>1. temps' = Append(temps, r) \/ temps' = temps
      BY <2>1 DEF ReadSensor
    <3>2. Len(temps) < cursor /\ cursor' = cursor + 1
      BY <2>1 DEF ReadSensor, TypeOK
    <3>3. temps \in Seq(Reading) /\ Len(temps) \in Nat
      BY LenProperties DEF TypeOK
    <3>4. Append(temps, r) \in Seq(Reading) /\ Len(Append(temps, r)) = Len(temps) + 1
      BY <3>3, <2>5, AppendProperties
    <3> HIDE DEF r
    <3> QED BY <3>1, <3>2, <3>3, <3>4, <2>3
  <2>7. calm' \in BOOLEAN
    BY <2>1 DEF ReadSensor, TypeOK
  <2> QED BY <2>1, <2>2, <2>3, <2>6, <2>7 DEF ReadSensor, Glitch, TypeOK
<1>10. CASE Report
  <2>1. report' = Buffer(temps) /\ temps \in Seq(Reading)
    BY <1>10 DEF Report, TypeOK
  <2>2. report' \in Seq(Reading) /\ Len(report') <= BufSize
    BY <2>1, BufferType
  <2> QED BY <1>10, <2>2 DEF Report, TypeOK
<1>11. CASE BusError
  BY <1>11 DEF BusError, Stop, TypeOK
<1> QED BY <1>1, <1>2, <1>3, <1>4, <1>6, <1>7, <1>8, <1>9, <1>10, <1>11 DEF Loop

LEMMA SensorTypes ==
    ASSUME TypeOK, NEW d \in Sensors, Finish(d) \/ Unplug(d) \/ Plug(d)
    PROVE  TypeOK'
<1> USE RomAssumption DEF RomAssumption, searchVars, noiseVars
<1>1. CASE Finish(d)
  BY <1>1 DEF Finish, TypeOK
<1>2. ASSUME Hotplug
      PROVE  hotplugs' \in 0 .. MaxHotplugs /\ quiet' \in BOOLEAN /\ calm' \in BOOLEAN
  <2>1. hotplugs' = hotplugs + 1 /\ hotplugs < MaxHotplugs
    BY <1>2 DEF Hotplug
  <2>2. quiet' = (quiet /\ phase # "scan") /\ calm' = FALSE
    BY <1>2 DEF Hotplug
  <2>3. hotplugs' \in 0 .. MaxHotplugs
    BY <2>1 DEF TypeOK
  <2> QED BY <2>2, <2>3
<1>3. CASE Unplug(d)
  <2>1. /\ plugged' \subseteq Sensors /\ active' \subseteq plugged'
        /\ busy' \subseteq plugged' /\ sampled' \subseteq plugged'
    BY <1>3 DEF Unplug, TypeOK
  <2>2. Hotplug
    BY <1>3 DEF Unplug
  <2>3. UNCHANGED <<scan, addresses, address, lastDiscrepancy, complete, lastZero, bit, glitches,
                    phase, failure, now, dead, cursor, temps, report>>
    BY <2>2 DEF Hotplug
  <2>4. hotplugs' \in 0 .. MaxHotplugs /\ quiet' \in BOOLEAN /\ calm' \in BOOLEAN
    BY <2>2, <1>2
  <2> QED BY <2>1, <2>3, <2>4 DEF TypeOK
<1>4. CASE Plug(d)
  <2>1. /\ plugged' \subseteq Sensors /\ active' \subseteq plugged'
        /\ busy' \subseteq plugged' /\ sampled' \subseteq plugged'
    BY <1>4 DEF Plug, TypeOK
  <2>2. Hotplug
    BY <1>4 DEF Plug
  <2>3. UNCHANGED <<scan, addresses, address, lastDiscrepancy, complete, lastZero, bit, glitches,
                    phase, failure, now, dead, cursor, temps, report>>
    BY <2>2 DEF Hotplug
  <2>4. hotplugs' \in 0 .. MaxHotplugs /\ quiet' \in BOOLEAN /\ calm' \in BOOLEAN
    BY <2>2, <1>2
  <2> QED BY <2>1, <2>3, <2>4 DEF TypeOK
<1> QED BY <1>1, <1>3, <1>4

\* TypeOK for every run of the loop: the indices into the ROM code and the
\* cache stay in range and neither the cache nor the buffer overflows.
THEOREM TypeCorrect == Spec => []TypeOK
<1>1. TypeOK /\ [Next]_vars => TypeOK'
  <2> SUFFICES ASSUME TypeOK, [Next]_vars PROVE TypeOK'
    OBVIOUS
  <2>1. CASE Loop
    BY <2>1, LoopTypes
  <2>2. CASE \E d \in Sensors : Finish(d) \/ Unplug(d) \/ Plug(d)
    BY <2>2, SensorTypes
  <2>3. CASE UNCHANGED vars
    BY <2>3 DEF vars, searchVars, noiseVars, cycleVars, TypeOK
  <2> QED BY <2>1, <2>2, <2>3 DEF Next
<1> QED BY <1>1, TypeInit, PTL DEF Spec

-----------------------------------------------------------------------------
(* One bit of the search.                                                  *)

\* d has the first n bits of the address.
Agrees(d, n) == \A i \in BitNo : i < n => d[i] = address[i]

\* A sensor in the search agrees with the address so far.
OnPath == scan = "bits" => \A d \in active : Agrees(d, bit)

\* A step of the loop outside the scan.
ScanInPhase == scan \in {"next", "bits"} => phase = "scan"

\* What an undisturbed step reads of the sensors in the search, and does.
LEMMA TrueSlots ==
    ASSUME TypeOK, active # {}, SearchBit(FALSE, FALSE)
    PROVE  LET D == Direction(BitSlot, ComplementSlot)
           IN  /\ bit \in BitNo /\ bit' = bit + 1 /\ D \in BOOLEAN
               /\ address' \in Rom /\ address'[bit] = D
               /\ \A i \in BitNo : i # bit => address'[i] = address[i]
               /\ active' = {d \in active : d[bit] = D}
               /\ active' # {}
               /\ lastZero' = LastZero(BitSlot, ComplementSlot)
<1> DEFINE D == Direction(BitSlot, ComplementSlot)
<1>1. BitSlot \in BOOLEAN /\ ComplementSlot \in BOOLEAN
  BY DEF BitSlot, ComplementSlot
<1>2. (BitSlot # FALSE) = BitSlot /\ (ComplementSlot # FALSE) = ComplementSlot
  BY <1>1
<1>3. /\ bit < RomBits /\ bit' = bit + 1
      /\ address' = [address EXCEPT ![bit] = D]
      /\ active' = {d \in active : d[bit] = D}
      /\ lastZero' = LastZero(BitSlot, ComplementSlot)
  BY <1>2 DEF SearchBit
<1>4. bit \in BitNo /\ D \in BOOLEAN /\ address' \in Rom
  BY <1>1, <1>3, DirectionType
<1>5. address'[bit] = D /\ \A i \in BitNo : i # bit => address'[i] = address[i]
  BY <1>3, <1>4 DEF TypeOK, Rom
<1>6. active \subseteq Rom
  BY RomTypes DEF TypeOK
<1>7. \A d \in active : d[bit] \in BOOLEAN
  BY <1>4, <1>6 DEF Rom
<1>8. \E d \in active : d[bit] = D
  <2>1. CASE BitSlot
    <3>1. ~ComplementSlot
      BY <2>1 DEF BitSlot, ComplementSlot
    <3>2. D = TRUE
      BY <2>1, <3>1, <1>1 DEF Direction
    <3> QED BY <2>1, <3>2, <1>7 DEF BitSlot
  <2>2. CASE ~BitSlot /\ ComplementSlot
    <3>1. D = FALSE
      BY <2>2, <1>1 DEF Direction
    <3> QED BY <2>2, <3>1, <1>7 DEF ComplementSlot
  <2>3. CASE ~BitSlot /\ ~ComplementSlot
    <3>1. /\ \E d \in active : d[bit] = TRUE
          /\ \E d \in active : d[bit] = FALSE
      BY <2>3, <1>7 DEF BitSlot, ComplementSlot
    <3> QED BY <3>1, <1>4
  <2> QED BY <2>1, <2>2, <2>3
<1> HIDE DEF D
<1>9. active' # {}
  BY <1>3, <1>8
<1> QED BY <1>3, <1>4, <1>5, <1>9 DEF D

\* The search stays among the sensors there are, unless the one glitch led it
\* astray: it then dies out, or ends one bit off a sensor's ROM code.
NearMiss(d) == \E i \in BitNo : address = [d EXCEPT ![i] = ~d[i]]

NoStray ==
    scan = "bits" /\ glitches <= 1 /\ hotplugs = 0 =>
        \/ active # {}
        \/ glitches = 1 /\ (bit = RomBits => \E d \in plugged : NearMiss(d))

ReachInv == TypeOK /\ ScanInPhase /\ OnPath /\ NoStray /\ NoPhantom

LEMMA OnPathStep ==
    ASSUME TypeOK, OnPath, NEW f \in BOOLEAN, NEW g \in BOOLEAN, SearchBit(f, g)
    PROVE  OnPath'
<1> DEFINE D == Direction(BitSlot # f, ComplementSlot # g)
<1>1. D \in BOOLEAN /\ bit \in BitNo
  <2>1. (BitSlot # f) \in BOOLEAN /\ (ComplementSlot # g) \in BOOLEAN
    BY DEF BitSlot, ComplementSlot
  <2>2. bit < RomBits
    BY DEF SearchBit
  <2> QED BY <2>1, <2>2, DirectionType
<1>2. /\ scan = "bits" /\ bit' = bit + 1
      /\ address' = [address EXCEPT ![bit] = D]
      /\ active' = {d \in active : d[bit] = D}
  BY DEF SearchBit
<1> HIDE DEF D
<1>3. ASSUME NEW d \in active' PROVE Agrees(d, bit)'
  <2>1. d \in active /\ d[bit] = D
    BY <1>2
  <2>2. Agrees(d, bit)
    BY <2>1, <1>2 DEF OnPath
  <2>3. ASSUME NEW i \in BitNo, i < bit' PROVE d[i] = address'[i]
    <3>1. CASE i = bit
      BY <3>1, <1>1, <1>2, <2>1 DEF TypeOK, Rom
    <3>2. CASE i # bit
      <4>1. i < bit
        BY <3>2, <2>3, <1>1, <1>2, RomTypes
      <4>2. address'[i] = address[i]
        BY <3>2, <1>1, <1>2 DEF TypeOK, Rom
      <4> QED BY <4>1, <4>2, <2>2 DEF Agrees
    <3> QED BY <3>1, <3>2
  <2> QED BY <2>3 DEF Agrees
<1> QED BY <1>3 DEF OnPath

\* A ROM code that agrees with the address to the end is the address.
LEMMA AgreesAll ==
    ASSUME TypeOK, NEW d \in Rom, Agrees(d, RomBits)
    PROVE  d = address
<1>1. \A i \in BitNo : d[i] = address[i]
  BY RomAssumption DEF RomAssumption, BitNo, Agrees
<1> QED BY <1>1 DEF Rom, TypeOK

LEMMA NoStraySearch ==
    ASSUME ReachInv, NEW f \in BOOLEAN, NEW g \in BOOLEAN, SearchBit(f, g)
    PROVE  NoStray'
<1> SUFFICES ASSUME glitches' <= 1, hotplugs' = 0, active' = {}
             PROVE  /\ glitches' = 1
                    /\ bit' = RomBits => \E d \in plugged' : NearMiss(d)'
  BY DEF NoStray
<1>1. /\ scan = "bits" /\ bit < RomBits /\ plugged' = plugged /\ hotplugs = 0
      /\ glitches' = glitches + (Flips(f) + Flips(g)) /\ bit' = bit + 1
  BY DEF SearchBit, ScanGlitch, Glitch
<1>2. glitches \in Nat /\ Flips(f) \in {0, 1} /\ Flips(g) \in {0, 1}
  BY FlipsType DEF ReachInv, TypeOK
<1>3. active # {}
  <2> SUFFICES ASSUME active = {} PROVE FALSE
    OBVIOUS
  <2>1. glitches = 1
    BY <1>1, <1>2 DEF ReachInv, NoStray
  <2>2. Flips(f) = 0 /\ Flips(g) = 0
    BY <1>1, <1>2, <2>1
  <2>3. f = FALSE /\ g = FALSE
    BY <2>2 DEF Flips
  <2>4. BitSlot = TRUE /\ ComplementSlot = TRUE
    BY DEF BitSlot, ComplementSlot
  <2> QED BY <2>3, <2>4 DEF SearchBit
<1>4. glitches' = 1
  <2> SUFFICES ASSUME glitches' # 1 PROVE FALSE
    OBVIOUS
  <2>1. Flips(f) = 0 /\ Flips(g) = 0
    BY <1>1, <1>2
  <2>2. f = FALSE /\ g = FALSE
    BY <2>1 DEF Flips
  <2>3. SearchBit(FALSE, FALSE)
    BY <2>2
  <2> QED BY <1>3, <2>3, TrueSlots DEF ReachInv
<1>5. ASSUME bit' = RomBits PROVE \E d \in plugged : NearMiss(d)'
  <2>1. PICK d \in active : TRUE
    BY <1>3
  <2>2. d \in plugged /\ d \in Rom
    BY <2>1, RomTypes DEF ReachInv, TypeOK
  <2>3. Agrees(d, bit)
    BY <1>1 DEF ReachInv, OnPath
  <2> DEFINE D == Direction(BitSlot # f, ComplementSlot # g)
  <2>4. D \in BOOLEAN /\ bit \in BitNo
    <3>1. (BitSlot # f) \in BOOLEAN /\ (ComplementSlot # g) \in BOOLEAN
      BY DEF BitSlot, ComplementSlot
    <3> QED BY <3>1, <1>1, DirectionType DEF ReachInv
  <2>5. /\ address' = [address EXCEPT ![bit] = D]
        /\ active' = {e \in active : e[bit] = D}
    BY DEF SearchBit
  <2> HIDE DEF D
  <2>6. d[bit] # D /\ d[bit] \in BOOLEAN
    BY <2>2, <2>4, <2>5 DEF Rom
  <2>7. D = ~d[bit]
    BY <2>4, <2>6
  <2>8. address \in Rom
    BY DEF ReachInv, TypeOK
  <2>9. \A i \in BitNo : i # bit => d[i] = address[i]
    BY <1>1, <1>5, <2>3, <2>4, RomAssumption DEF RomAssumption, BitNo, Agrees
  <2>10. address' = [d EXCEPT ![bit] = ~d[bit]]
    BY <2>2, <2>4, <2>5, <2>7, <2>8, <2>9 DEF Rom
  <2> QED BY <2>2, <2>4, <2>10 DEF NearMiss
<1> QED BY <1>1, <1>4, <1>5

\* A pass that ends with a valid CRC ends on a sensor.
LEMMA EndOnSensor ==
    ASSUME ReachInv, EndPass, CrcOk(address), glitches <= 1, hotplugs = 0
    PROVE  address \in plugged
<1>1. address \in Sensors
  BY DEF Sensors, ReachInv, TypeOK
<1>2. CASE active # {}
  <2>1. PICK d \in active : TRUE
    BY <1>2
  <2>2. d \in plugged /\ d \in Rom
    BY <2>1, RomTypes DEF ReachInv, TypeOK
  <2>3. Agrees(d, RomBits)
    BY <2>1 DEF ReachInv, OnPath, EndPass
  <2> QED BY <2>2, <2>3, AgreesAll DEF ReachInv
<1>3. CASE active = {}
  <2>1. PICK d \in plugged : NearMiss(d)
    BY <1>3 DEF ReachInv, NoStray, EndPass
  <2>2. d \in Sensors
    BY DEF ReachInv, TypeOK
  <2> QED BY <1>1, <2>1, <2>2, CrcAssumption DEF NearMiss
<1> QED BY <1>2, <1>3

\* What a pass adds to the cache.
LEMMA EndPassAdds ==
    ASSUME TypeOK, EndPass
    PROVE  /\ addresses' \in Seq(Rom) /\ Len(addresses) \in Nat /\ Len(addresses') \in Nat
           /\ \A k \in 1 .. Len(addresses') :
                \/ k \in 1 .. Len(addresses) /\ addresses'[k] = addresses[k]
                \/ k = Len(addresses) + 1 /\ addresses'[k] = address /\ CrcOk(address)
<1>1. Len(addresses) \in Nat /\ address \in Rom /\ addresses \in Seq(Rom)
  BY LenProperties DEF TypeOK
<1>2. CASE CrcOk(address) /\ Len(addresses) < MaxSensors
  <2>1. addresses' = Append(addresses, address)
    BY <1>2 DEF EndPass, Enumerated
  <2>2. /\ Append(addresses, address) \in Seq(Rom)
        /\ Len(Append(addresses, address)) = Len(addresses) + 1
        /\ \A k \in 1 .. Len(addresses) : Append(addresses, address)[k] = addresses[k]
        /\ Append(addresses, address)[Len(addresses) + 1] = address
    BY <1>1, AppendProperties
  <2> QED BY <1>1, <1>2, <2>1, <2>2
<1>3. CASE ~(CrcOk(address) /\ Len(addresses) < MaxSensors)
  <2>1. addresses' = addresses
    BY <1>3 DEF EndPass, Enumerated
  <2> QED BY <1>1, <2>1
<1> QED BY <1>2, <1>3

LEMMA ReachInit == Init => ReachInv
<1> SUFFICES ASSUME Init PROVE ReachInv
  OBVIOUS
<1>1. addresses = <<>> /\ scan = "ok"
  BY DEF Init, ScanInit
<1>2. Len(addresses) = 0
  BY <1>1, EmptySeq
<1>3. NoPhantom
  BY <1>2 DEF NoPhantom, Cached
<1> QED BY <1>1, <1>3, TypeInit DEF ReachInv, ScanInPhase, OnPath, NoStray

LEMMA ReachScan ==
    ASSUME ReachInv, Scan
    PROVE  ReachInv'
<1>1. TypeOK'
  BY ScanTypes DEF ReachInv
<1>2. phase = "scan" /\ phase' = phase
  BY DEF Scan, cycleVars
<1>3. ScanInPhase'
  BY <1>2 DEF ScanInPhase
<1>4. ASSUME addresses' = addresses, plugged' = plugged, hotplugs' = hotplugs, glitches' >= glitches
      PROVE  NoPhantom'
  <2>1. glitches \in Int /\ glitches' \in Int
    BY <1>1 DEF ReachInv, TypeOK
  <2>2. glitches' <= 1 => glitches <= 1
    BY <1>4, <2>1
  <2>3. Cached' = Cached
    BY <1>4 DEF Cached
  <2> QED BY <1>4, <2>2, <2>3 DEF ReachInv, NoPhantom
<1>5. ASSUME scan' # "bits" PROVE OnPath' /\ NoStray'
  BY <1>5 DEF OnPath, NoStray
<1>6. glitches \in Nat /\ \A b \in BOOLEAN : Flips(b) \in Nat
  BY FlipsType DEF ReachInv, TypeOK
<1>7. CASE SearchComplete
  <2>1. /\ addresses' = addresses /\ plugged' = plugged /\ hotplugs' = hotplugs
        /\ glitches' = glitches /\ scan' # "bits"
    BY <1>7 DEF SearchComplete, noiseVars
  <2>2. NoPhantom'
    BY <1>4, <1>6, <2>1
  <2> QED BY <1>1, <1>3, <1>5, <2>1, <2>2 DEF ReachInv
<1>8. CASE \E flip \in BOOLEAN : StartPass(flip)
  <2>1. PICK flip \in BOOLEAN : StartPass(flip)
    BY <1>8
  <2>2. /\ glitches' = glitches + Flips(flip) /\ plugged' = plugged /\ hotplugs' = hotplugs
        /\ addresses' = addresses /\ bit' = 0 /\ active' = plugged
    BY <2>1 DEF StartPass, ScanGlitch, Glitch
  <2>3. NoPhantom'
    BY <1>4, <1>6, <2>2
  <2>4. OnPath'
    <3>1. \A i \in BitNo : ~(i < bit')
      BY <2>2, RomTypes
    <3> QED BY <3>1 DEF OnPath, Agrees
  <2>5. NoStray'
    <3> SUFFICES ASSUME scan' = "bits", glitches' <= 1, active' = {}
                 PROVE  glitches' = 1 /\ bit' # RomBits
      BY DEF NoStray
    <3>1. flip = TRUE
      BY <2>1, <2>2 DEF StartPass
    <3> QED BY <2>2, <3>1, <1>6, RomAssumption DEF RomAssumption, Flips
  <2> QED BY <1>1, <1>3, <2>3, <2>4, <2>5 DEF ReachInv
<1>9. CASE \E f, g \in BOOLEAN : SearchBit(f, g)
  <2>1. PICK f \in BOOLEAN, g \in BOOLEAN : SearchBit(f, g)
    BY <1>9
  <2>2. /\ glitches' = glitches + (Flips(f) + Flips(g)) /\ plugged' = plugged
        /\ hotplugs' = hotplugs /\ addresses' = addresses
    BY <2>1 DEF SearchBit, ScanGlitch, Glitch
  <2>3. NoPhantom'
    BY <1>4, <1>6, <2>2
  <2>4. OnPath'
    BY <2>1, OnPathStep DEF ReachInv
  <2>5. NoStray'
    BY <2>1, NoStraySearch
  <2> QED BY <1>1, <1>3, <2>3, <2>4, <2>5 DEF ReachInv
<1>10. CASE \E f, g \in BOOLEAN : NobodyAnswers(f, g)
  <2>1. PICK f \in BOOLEAN, g \in BOOLEAN : NobodyAnswers(f, g)
    BY <1>10
  <2>2. /\ glitches' = glitches + (Flips(f) + Flips(g)) /\ plugged' = plugged
        /\ hotplugs' = hotplugs /\ addresses' = addresses /\ scan' = "ok"
    BY <2>1 DEF NobodyAnswers, ScanGlitch, Glitch
  <2>3. NoPhantom'
    BY <1>4, <1>6, <2>2
  <2> QED BY <1>1, <1>3, <1>5, <2>2, <2>3 DEF ReachInv
<1>11. CASE EndPass
  <2>1. scan' # "bits"
    BY <1>11 DEF EndPass, Enumerated
  <2>2. NoPhantom'
    <3> SUFFICES ASSUME glitches' <= 1, hotplugs' = 0, NEW k \in 1 .. Len(addresses')
                 PROVE  addresses'[k] \in plugged'
      BY DEF NoPhantom, Cached
    <3>1. glitches <= 1 /\ hotplugs = 0 /\ plugged' = plugged
      BY <1>11 DEF EndPass, noiseVars
    <3>2. CASE k \in 1 .. Len(addresses) /\ addresses'[k] = addresses[k]
      BY <3>1, <3>2 DEF ReachInv, NoPhantom, Cached
    <3>3. CASE addresses'[k] = address /\ CrcOk(address)
      BY <1>11, <3>1, <3>3, EndOnSensor
    <3> QED BY <1>11, <3>2, <3>3, EndPassAdds DEF ReachInv
  <2> QED BY <1>1, <1>3, <1>5, <2>1, <2>2 DEF ReachInv
<1>12. CASE ScanBusError
  <2>1. /\ addresses' = addresses /\ plugged' = plugged /\ hotplugs' = hotplugs
        /\ glitches' = glitches /\ scan' # "bits"
    BY <1>12 DEF ScanBusError, noiseVars
  <2>2. NoPhantom'
    BY <1>4, <1>6, <2>1
  <2> QED BY <1>1, <1>3, <1>5, <2>1, <2>2 DEF ReachInv
<1> QED BY <1>7, <1>8, <1>9, <1>10, <1>11, <1>12 DEF Scan, ScanStep

\* Outside the scan the cache and the search stand still.
LEMMA LoopElsewhere ==
    ASSUME TypeOK, ScanInPhase, Loop, ~Scan, ~(phase = "tick" /\ addresses = <<>>)
    PROVE  /\ UNCHANGED <<searchVars, plugged, hotplugs, quiet>>
           /\ scan \notin {"next", "bits"}
           /\ glitches' \in Nat /\ glitches' >= glitches
<1> USE DEF searchVars, noiseVars
<1>1. glitches \in Nat /\ \A b \in BOOLEAN : Flips(b) \in Nat
  BY FlipsType DEF TypeOK
<1>2. CASE StartCycle
  BY <1>1, <1>2 DEF StartCycle, ScanInPhase
<1>3. CASE ScanReturns
  BY <1>1, <1>3 DEF ScanReturns
<1>4. CASE Convert
  BY <1>1, <1>4 DEF Convert, ScanInPhase
<1>5. CASE \E flip \in BOOLEAN : Sample(flip)
  BY <1>1, <1>5 DEF Sample, Glitch, ScanInPhase
<1>6. CASE \E fails \in BOOLEAN : ReadSensor(fails)
  BY <1>1, <1>6 DEF ReadSensor, Glitch, ScanInPhase
<1>7. CASE Report
  BY <1>1, <1>7 DEF Report, ScanInPhase
<1>8. CASE BusError
  BY <1>1, <1>8 DEF BusError, ScanInPhase
<1> QED BY <1>2, <1>3, <1>4, <1>5, <1>6, <1>7, <1>8
        DEF Loop, Converted, PollAgain, ConversionTimeout

\* After Rescan the cache is empty.
LEMMA AfterRescan ==
    ASSUME TypeOK, Loop, ~Scan, phase = "tick", addresses = <<>>
    PROVE  Rescan /\ phase' = "scan" /\ Len(addresses') = 0
<1>1. StartCycle
  BY DEF Loop, Scan, ScanReturns, Convert, Converted, PollAgain, ConversionTimeout, Sample,
         ReadSensor, Report, BusError
<1>2. Rescan /\ phase' = "scan"
  BY <1>1 DEF StartCycle
<1> QED BY <1>2, EmptySeq DEF Rescan

LEMMA ReachLoop ==
    ASSUME ReachInv, Loop
    PROVE  ReachInv'
<1>1. TypeOK'
  BY LoopTypes DEF ReachInv
<1>2. CASE Scan
  BY <1>2, ReachScan
<1>3. CASE ~Scan /\ phase = "tick" /\ addresses = <<>>
  <2>1. Rescan /\ phase' = "scan" /\ Len(addresses') = 0
    BY <1>3, AfterRescan DEF ReachInv
  <2>2. NoPhantom'
    BY <2>1 DEF NoPhantom, Cached
  <2> QED BY <1>1, <2>1, <2>2 DEF Rescan, ReachInv, ScanInPhase, OnPath, NoStray
<1>4. CASE ~Scan /\ ~(phase = "tick" /\ addresses = <<>>)
  <2>1. /\ UNCHANGED <<searchVars, plugged, hotplugs>>
        /\ scan \notin {"next", "bits"}
        /\ glitches' \in Nat /\ glitches' >= glitches /\ glitches \in Nat
    BY <1>4, LoopElsewhere DEF ReachInv, TypeOK
  <2>2. addresses' = addresses /\ scan' = scan
    BY <2>1 DEF searchVars
  <2>3. NoPhantom'
    BY <2>1, <2>2 DEF ReachInv, NoPhantom, Cached
  <2> QED BY <1>1, <2>1, <2>2, <2>3 DEF ReachInv, ScanInPhase, OnPath, NoStray
<1> QED BY <1>2, <1>3, <1>4

LEMMA ReachSensors ==
    ASSUME ReachInv, NEW d \in Sensors, Finish(d) \/ Unplug(d) \/ Plug(d)
    PROVE  ReachInv'
<1>1. TypeOK'
  BY SensorTypes DEF ReachInv
<1>2. CASE Finish(d)
  BY <1>1, <1>2 DEF Finish, searchVars, noiseVars, ReachInv, ScanInPhase, OnPath, Agrees,
                    NoStray, NearMiss, NoPhantom, Cached
<1>3. CASE Unplug(d) \/ Plug(d)
  <2>1. /\ scan' = scan /\ phase' = phase /\ address' = address /\ bit' = bit
        /\ hotplugs' = hotplugs + 1 /\ hotplugs \in Nat
    BY <1>3 DEF Unplug, Plug, Hotplug, ReachInv, TypeOK
  <2>2. active' \subseteq active
    BY <1>3 DEF Unplug, Plug
  <2>3. OnPath'
    BY <2>1, <2>2 DEF ReachInv, OnPath, Agrees
  <2>4. hotplugs' # 0
    BY <2>1
  <2> QED BY <1>1, <2>1, <2>3, <2>4 DEF ReachInv, ScanInPhase, NoStray, NoPhantom
<1> QED BY <1>2, <1>3

\* NoPhantom for ROM codes of any length and any CRC that tells one inverted
\* bit: the cache never names a sensor that is not there.
THEOREM FoundAreThere == Spec => []NoPhantom
<1>1. ReachInv /\ [Next]_vars => ReachInv'
  <2> SUFFICES ASSUME ReachInv, [Next]_vars PROVE ReachInv'
    OBVIOUS
  <2>1. CASE Loop
    BY <2>1, ReachLoop
  <2>2. CASE \E d \in Sensors : Finish(d) \/ Unplug(d) \/ Plug(d)
    BY <2>2, ReachSensors
  <2>3. CASE UNCHANGED vars
    BY <2>3 DEF vars, searchVars, noiseVars, cycleVars, ReachInv, TypeOK, ScanInPhase, OnPath,
                Agrees, NoStray, NearMiss, NoPhantom, Cached
  <2> QED BY <2>1, <2>2, <2>3 DEF Next
<1>2. ReachInv => NoPhantom
  BY DEF ReachInv
<1> QED BY <1>1, <1>2, ReachInit, PTL DEF Spec

-----------------------------------------------------------------------------
(* No sensor is found twice.                                               *)

\* The address takes 0 at l where a sensor on the same path has 1.
Fork(l) == \E e \in plugged : Agrees(e, l) /\ e[l]
Turn(l) == ~address[l] /\ Fork(l)

\* This pass has left, or will leave, the path of c for good: at a bit where c
\* has 0 it has 1.
Behind(c) ==
    \E b \in BitNo :
        /\ b <= lastDiscrepancy /\ ~c[b]
        /\ b < lastDiscrepancy => address[b]

AllBehind == \A k \in 1 .. Len(addresses) : Behind(addresses[k])

\* Between two passes.
BetweenPasses ==
    scan = "next" /\ quiet /\ ~complete =>
        /\ AllBehind
        /\ lastDiscrepancy # None => address \in plugged /\ Turn(lastDiscrepancy)

\* During a pass: up to the last discrepancy it follows the path of the one
\* before, there it takes 1, and after it it keeps track of the deepest fork
\* at which it took 0.
InPass ==
    scan = "bits" /\ quiet =>
        /\ active = {d \in plugged : Agrees(d, bit)} /\ active # {}
        /\ AllBehind
        /\ lastDiscrepancy # None =>
            /\ Fork(lastDiscrepancy)
            /\ bit <= lastDiscrepancy => address \in plugged /\ ~address[lastDiscrepancy]
            /\ bit > lastDiscrepancy => address[lastDiscrepancy]
        /\ lastZero # None => lastZero > lastDiscrepancy /\ lastZero < bit /\ Turn(lastZero)

SweepInv == TypeOK /\ ScanInPhase /\ BetweenPasses /\ InPass /\ NoDuplicate

\* Agreement up to the bit at hand is not disturbed by choosing it.
LEMMA AgreesKept ==
    ASSUME TypeOK, active # {}, SearchBit(FALSE, FALSE),
           NEW d, NEW n \in Int, n <= bit
    PROVE  Agrees(d, n)' <=> Agrees(d, n)
<1>1. \A i \in BitNo : i # bit => address'[i] = address[i]
  BY TrueSlots
<1>2. \A i \in BitNo : i < n => i # bit
  BY RomTypes DEF TypeOK
<1> QED BY <1>1, <1>2 DEF Agrees

LEMMA AgreesNext ==
    ASSUME TypeOK, active # {}, SearchBit(FALSE, FALSE), NEW d \in Rom
    PROVE  Agrees(d, bit)' <=> Agrees(d, bit) /\ d[bit] = address'[bit]
<1>1. /\ bit \in BitNo /\ bit' = bit + 1
      /\ \A i \in BitNo : i # bit => address'[i] = address[i]
  BY TrueSlots
<1>2. \A i \in BitNo : i < bit' <=> i < bit \/ i = bit
  BY <1>1, RomTypes
<1>3. \A i \in BitNo : i < bit => i # bit
  BY <1>1, RomTypes
<1> QED BY <1>1, <1>2, <1>3 DEF Agrees

\* The sensors in an undisturbed search are those on its path.
LEMMA ActiveKept ==
    ASSUME TypeOK, active # {}, SearchBit(FALSE, FALSE),
           active = {d \in plugged : Agrees(d, bit)}
    PROVE  active' = {d \in plugged' : Agrees(d, bit)'} /\ active' # {}
<1>1. plugged' = plugged
  BY DEF SearchBit, ScanGlitch, Glitch
<1>2. active' = {d \in active : d[bit] = address'[bit]} /\ active' # {}
  BY TrueSlots
<1>3. \A d \in plugged : Agrees(d, bit)' <=> Agrees(d, bit) /\ d[bit] = address'[bit]
  BY AgreesNext, RomTypes DEF TypeOK
<1> QED BY <1>1, <1>2, <1>3

\* What the two slots tell of the sensors in the search.
LEMMA SlotsTell ==
    ASSUME TypeOK, bit \in BitNo, active # {}
    PROVE  /\ BitSlot \in BOOLEAN /\ ComplementSlot \in BOOLEAN
           /\ \A d \in active : d[bit] \in BOOLEAN
           /\ BitSlot => ~ComplementSlot /\ \A d \in active : d[bit] = TRUE
           /\ ComplementSlot => ~BitSlot /\ \A d \in active : d[bit] = FALSE
           /\ ~BitSlot => \E d \in active : d[bit] = FALSE
           /\ ~ComplementSlot => \E d \in active : d[bit] = TRUE
<1>1. \A d \in active : d[bit] \in BOOLEAN
  BY RomTypes DEF TypeOK, Rom
<1> QED BY <1>1 DEF BitSlot, ComplementSlot

\* Below the last discrepancy the pass repeats the one before.
LEMMA RepeatsPath ==
    ASSUME SweepInv, quiet, SearchBit(FALSE, FALSE), bit < lastDiscrepancy
    PROVE  address' = address
<1>1. /\ scan = "bits" /\ lastDiscrepancy # None /\ bit \in Nat
  BY DEF SearchBit, SweepInv, TypeOK, None
<1>2. /\ active = {d \in plugged : Agrees(d, bit)} /\ active # {}
      /\ bit <= lastDiscrepancy => address \in plugged
  BY <1>1 DEF SweepInv, InPass
<1>3. lastDiscrepancy \in Int /\ bit # lastDiscrepancy /\ ~(bit > lastDiscrepancy)
  BY <1>1, RomTypes DEF SweepInv, TypeOK
<1>4. address \in active
  BY <1>1, <1>2, <1>3 DEF Agrees
<1>5. bit \in BitNo
  BY <1>2, TrueSlots DEF SweepInv
<1>6. address'[bit] = Direction(BitSlot, ComplementSlot) /\ address' \in Rom
  BY <1>2, TrueSlots DEF SweepInv
<1>7. Direction(BitSlot, ComplementSlot) = address[bit]
  <2>1. CASE BitSlot
    BY <2>1, <1>2, <1>4, <1>5, SlotsTell DEF SweepInv, Direction
  <2>2. CASE ComplementSlot
    BY <2>2, <1>2, <1>4, <1>5, SlotsTell DEF SweepInv, Direction
  <2>3. CASE ~BitSlot /\ ~ComplementSlot
    <3>1. Direction(BitSlot, ComplementSlot) = (bit < lastDiscrepancy /\ address[bit])
      BY <2>3, <1>2, <1>3, <1>5, SlotsTell DEF SweepInv, Direction
    <3>2. address[bit] \in BOOLEAN
      BY <1>2, <1>4, <1>5, SlotsTell DEF SweepInv
    <3> QED BY <3>1, <3>2
  <2> QED BY <2>1, <2>2, <2>3
<1>8. \A i \in BitNo : address'[i] = address[i]
  BY <1>2, <1>6, <1>7, TrueSlots DEF SweepInv
<1> QED BY <1>6, <1>8 DEF SweepInv, TypeOK, Rom

\* At the last discrepancy it takes 1.
LEMMA TakesOne ==
    ASSUME SweepInv, quiet, SearchBit(FALSE, FALSE), bit = lastDiscrepancy
    PROVE  address'[bit] /\ ~BitSlot /\ ~ComplementSlot
<1>1. /\ scan = "bits" /\ lastDiscrepancy # None /\ bit \in Nat
  BY DEF SearchBit, SweepInv, TypeOK, None
<1>2. /\ active = {d \in plugged : Agrees(d, bit)} /\ active # {}
      /\ Fork(bit) /\ address \in plugged /\ ~address[bit]
  BY <1>1 DEF SweepInv, InPass
<1>3. bit \in BitNo /\ address'[bit] = Direction(BitSlot, ComplementSlot)
  BY <1>2, TrueSlots DEF SweepInv
<1>4. address \in active
  BY <1>2 DEF Agrees
<1>5. PICK e \in active : e[bit]
  BY <1>2 DEF Fork
<1>6. ~BitSlot /\ ~ComplementSlot
  BY <1>2, <1>4, <1>5 DEF BitSlot, ComplementSlot
<1>7. Direction(BitSlot, ComplementSlot) = TRUE
  BY <1>2, <1>3, <1>6, SlotsTell DEF SweepInv, Direction
<1> QED BY <1>3, <1>6, <1>7

LEMMA InPassSearch ==
    ASSUME SweepInv, quiet, SearchBit(FALSE, FALSE)
    PROVE  InPass'
<1> DEFINE l == lastDiscrepancy
<1>1. /\ scan = "bits" /\ lastDiscrepancy' = l /\ addresses' = addresses
      /\ plugged' = plugged /\ bit' = bit + 1
  BY DEF SearchBit, ScanGlitch, Glitch
<1>2. /\ active = {d \in plugged : Agrees(d, bit)} /\ active # {} /\ AllBehind
      /\ l # None =>
            /\ Fork(l)
            /\ bit <= l => address \in plugged /\ ~address[l]
            /\ bit > l => address[l]
      /\ lastZero # None => lastZero > l /\ lastZero < bit /\ Turn(lastZero)
  BY <1>1 DEF SweepInv, InPass
<1>3. TypeOK /\ bit \in Int /\ l \in Int /\ lastZero \in Int
  BY RomTypes DEF SweepInv, TypeOK, None
<1>4. /\ bit \in BitNo /\ \A i \in BitNo : i # bit => address'[i] = address[i]
      /\ address'[bit] = Direction(BitSlot, ComplementSlot)
      /\ lastZero' = LastZero(BitSlot, ComplementSlot)
  BY <1>2, <1>3, TrueSlots
<1>5. active' = {d \in plugged' : Agrees(d, bit)'} /\ active' # {}
  BY <1>2, <1>3, ActiveKept
<1>6. ASSUME NEW n \in Int, n <= bit, Fork(n) PROVE Fork(n)'
  BY <1>1, <1>2, <1>3, <1>6, AgreesKept DEF Fork
<1>7. ASSUME NEW b \in BitNo, b <= l, b < l => address[b] PROVE b < l => address'[b]
  <2>1. CASE bit < l
    BY <2>1, <1>7, RepeatsPath
  <2>2. CASE bit >= l
    BY <2>2, <1>3, <1>4, <1>7, RomTypes
  <2> QED BY <2>1, <2>2, <1>3
<1>8. AllBehind'
  BY <1>1, <1>2, <1>7 DEF AllBehind, Behind
<1>9. ASSUME l # None
      PROVE  /\ Fork(l)'
             /\ bit' <= l => address' \in plugged' /\ ~address'[l]
             /\ bit' > l => address'[l]
  <2>1. CASE bit < l
    <3>1. address' = address
      BY <2>1, RepeatsPath
    <3>2. Fork(l)'
      BY <1>1, <1>2, <1>9, <3>1 DEF Fork, Agrees
    <3>3. bit <= l /\ ~(bit' > l)
      BY <2>1, <1>1, <1>3
    <3> QED BY <1>1, <1>2, <1>9, <3>1, <3>2, <3>3
  <2>2. CASE bit = l
    <3>1. Fork(l)'
      BY <2>2, <1>1, <1>2, <1>3, <1>6, <1>9
    <3>2. address'[l]
      BY <2>2, TakesOne
    <3> QED BY <2>2, <3>1, <3>2, <1>1, <1>3
  <2>3. CASE bit > l
    <3>1. Fork(l)'
      BY <2>3, <1>1, <1>2, <1>3, <1>6, <1>9
    <3>2. l \in BitNo /\ l # bit
      BY <2>3, <1>3, <1>9 DEF TypeOK
    <3> QED BY <2>3, <3>1, <3>2, <1>1, <1>2, <1>3, <1>4, <1>9
  <2> QED BY <2>1, <2>2, <2>3, <1>3
<1>10. ASSUME lastZero' # None
       PROVE  lastZero' > l /\ lastZero' < bit' /\ Turn(lastZero)'
  <2>1. CASE ~BitSlot /\ ~ComplementSlot /\ bit > l
    <3>1. lastZero' = bit
      BY <2>1, <1>4 DEF LastZero
    <3>2. Direction(BitSlot, ComplementSlot) = FALSE
      BY <2>1, <1>2, <1>3, <1>4, SlotsTell DEF Direction
    <3>3. \E e \in active : e[bit] = TRUE
      BY <2>1, <1>2, <1>3, <1>4, SlotsTell
    <3>4. Fork(bit)
      BY <3>3, <1>2 DEF Fork
    <3>5. Fork(lastZero)'
      BY <3>1, <3>4, <1>1, <1>2, <1>3, AgreesKept DEF Fork
    <3> QED BY <2>1, <3>1, <3>2, <3>5, <1>1, <1>3, <1>4 DEF Turn
  <2>2. CASE ~(~BitSlot /\ ~ComplementSlot /\ bit > l)
    <3>1. lastZero' = lastZero
      BY <2>2, <1>4 DEF LastZero
    <3>2. lastZero > l /\ lastZero < bit /\ Turn(lastZero)
      BY <3>1, <1>2, <1>10
    <3>3. lastZero \in BitNo /\ lastZero # bit
      BY <3>1, <3>2, <1>3, <1>10 DEF TypeOK
    <3>4. Fork(lastZero)'
      BY <3>1, <3>2, <1>1, <1>2, <1>3, AgreesKept DEF Fork, Turn
    <3> QED BY <3>1, <3>2, <3>3, <3>4, <1>1, <1>3, <1>4 DEF Turn
  <2> QED BY <2>1, <2>2
<1> QED BY <1>1, <1>5, <1>8, <1>9, <1>10 DEF InPass

LEMMA EndPassSweeps ==
    ASSUME SweepInv, EndPass
    PROVE  BetweenPasses' /\ NoDuplicate'
<1> SUFFICES ASSUME quiet' PROVE BetweenPasses' /\ NoDuplicate'
  BY DEF BetweenPasses, NoDuplicate
<1>1. /\ scan = "bits" /\ bit = RomBits /\ quiet /\ plugged' = plugged /\ address' = address
      /\ lastDiscrepancy' = lastZero /\ complete' = (lastZero = None)
  BY DEF EndPass, noiseVars
<1>2. /\ active = {d \in plugged : Agrees(d, RomBits)} /\ active # {} /\ AllBehind
      /\ lastDiscrepancy # None /\ RomBits > lastDiscrepancy => address[lastDiscrepancy]
      /\ lastZero # None => lastZero > lastDiscrepancy /\ Turn(lastZero)
  BY <1>1 DEF SweepInv, InPass
<1>3. TypeOK /\ lastDiscrepancy \in Int /\ lastZero \in Int /\ None \notin BitNo
  BY RomTypes DEF SweepInv, TypeOK, None
<1>4. address \in plugged
  <2>1. PICK d \in plugged : Agrees(d, RomBits)
    BY <1>2
  <2>2. d \in Rom
    BY <1>3, RomTypes DEF TypeOK
  <2> QED BY <1>3, <2>1, <2>2, AgreesAll
<1>5. ASSUME NEW k \in 1 .. Len(addresses)
      PROVE  \E b \in BitNo : b <= lastDiscrepancy /\ ~addresses[k][b] /\ address[b]
  <2>1. PICK b \in BitNo : /\ b <= lastDiscrepancy /\ ~addresses[k][b]
                           /\ b < lastDiscrepancy => address[b]
    BY <1>2 DEF AllBehind, Behind
  <2>2. CASE b < lastDiscrepancy
    BY <2>1, <2>2
  <2>3. CASE b = lastDiscrepancy
    BY <1>2, <1>3, <2>1, <2>3, RomAssumption DEF RomAssumption, BitNo
  <2> QED BY <1>3, <2>1, <2>2, <2>3, RomTypes
<1>6. NoDuplicate'
  <2>1. ASSUME NEW k \in 1 .. Len(addresses) PROVE addresses[k] # address
    BY <1>5
  <2>2. \A j, k \in 1 .. Len(addresses) : j # k => addresses[j] # addresses[k]
    BY <1>1 DEF SweepInv, NoDuplicate
  <2> QED BY <1>3, <2>1, <2>2, EndPassAdds DEF NoDuplicate
<1>7. BetweenPasses'
  <2> SUFFICES ASSUME lastZero # None PROVE AllBehind' /\ Turn(lastDiscrepancy)'
    BY <1>1, <1>4 DEF BetweenPasses
  <2>1. lastZero > lastDiscrepancy /\ Turn(lastZero) /\ lastZero \in BitNo
    BY <1>2, <1>3 DEF TypeOK
  <2>2. Turn(lastDiscrepancy)'
    BY <1>1, <2>1 DEF Turn, Fork, Agrees
  <2>3. ASSUME NEW k \in 1 .. Len(addresses') PROVE Behind(addresses[k])'
    <3>1. CASE k \in 1 .. Len(addresses) /\ addresses'[k] = addresses[k]
      <4>1. PICK b \in BitNo : b <= lastDiscrepancy /\ ~addresses[k][b] /\ address[b]
        BY <1>5, <3>1
      <4>2. b <= lastZero
        BY <1>3, <2>1, <4>1, RomTypes
      <4> QED BY <1>1, <3>1, <4>1, <4>2 DEF Behind
    <3>2. CASE addresses'[k] = address
      BY <1>1, <1>3, <2>1, <3>2 DEF Behind, Turn
    <3> QED BY <1>3, <3>1, <3>2, EndPassAdds
  <2> QED BY <2>2, <2>3 DEF AllBehind
<1> QED BY <1>6, <1>7

LEMMA SweepScan ==
    ASSUME SweepInv, Scan
    PROVE  SweepInv'
<1>1. TypeOK'
  BY ScanTypes DEF SweepInv
<1>2. ScanInPhase'
  BY DEF Scan, cycleVars, ScanInPhase
<1>3. ASSUME addresses' = addresses, quiet' => quiet PROVE NoDuplicate'
  BY <1>3 DEF SweepInv, NoDuplicate
<1>4. ASSUME scan' \notin {"next", "bits"} PROVE BetweenPasses' /\ InPass'
  BY <1>4 DEF BetweenPasses, InPass
<1>5. CASE SearchComplete
  BY <1>1, <1>2, <1>3, <1>4, <1>5 DEF SearchComplete, noiseVars, SweepInv
<1>6. CASE \E flip \in BOOLEAN : StartPass(flip)
  <2>1. PICK flip \in BOOLEAN : StartPass(flip)
    BY <1>6
  <2>2. /\ scan = "next" /\ ~complete /\ scan' # "next" /\ lastZero' = None /\ bit' = 0
        /\ active' = plugged /\ plugged' = plugged
        /\ quiet' => quiet /\ Flips(flip) = 0
        /\ UNCHANGED <<addresses, address, lastDiscrepancy>>
    BY <2>1 DEF StartPass, ScanGlitch, Glitch
  <2>3. NoDuplicate' /\ BetweenPasses'
    BY <1>3, <2>2 DEF BetweenPasses
  <2>4. InPass'
    <3> SUFFICES ASSUME scan' = "bits", quiet' PROVE InPass'
      BY DEF InPass
    <3>1. flip = FALSE /\ quiet
      <4>1. Flips(flip) = 0 /\ quiet
        BY <2>2
      <4> QED BY <4>1 DEF Flips
    <3>2. plugged # {}
      BY <2>1, <3>1 DEF StartPass
    <3>3. \A i \in BitNo : ~(i < 0)
      BY RomTypes
    <3>4. active' = {d \in plugged' : Agrees(d, bit)'}
      BY <2>2, <3>3 DEF Agrees
    <3>5. AllBehind /\ (lastDiscrepancy # None => address \in plugged /\ Turn(lastDiscrepancy))
      BY <2>2, <3>1 DEF SweepInv, BetweenPasses
    <3>6. AllBehind'
      BY <2>2, <3>5 DEF AllBehind, Behind
    <3>7. lastDiscrepancy # None => ~(0 > lastDiscrepancy)
      BY RomTypes DEF SweepInv, TypeOK
    <3>8. lastDiscrepancy # None => Fork(lastDiscrepancy)' /\ ~address'[lastDiscrepancy']
      BY <2>2, <3>5 DEF Turn, Fork, Agrees
    <3> QED BY <2>2, <3>2, <3>4, <3>5, <3>6, <3>7, <3>8 DEF InPass
  <2> QED BY <1>1, <1>2, <2>3, <2>4 DEF SweepInv
<1>7. CASE \E f, g \in BOOLEAN : SearchBit(f, g)
  <2>1. PICK f \in BOOLEAN, g \in BOOLEAN : SearchBit(f, g)
    BY <1>7
  <2>2. /\ scan = "bits" /\ scan' = scan /\ addresses' = addresses
        /\ quiet' => quiet /\ Flips(f) + Flips(g) = 0
    BY <2>1 DEF SearchBit, ScanGlitch
  <2>3. NoDuplicate' /\ BetweenPasses'
    BY <1>3, <2>2 DEF BetweenPasses
  <2>4. InPass'
    <3> SUFFICES ASSUME quiet' PROVE InPass'
      BY DEF InPass
    <3>1. f = FALSE /\ g = FALSE /\ quiet
      <4>1. Flips(f) = 0 /\ Flips(g) = 0 /\ quiet
        BY <2>2, FlipsType
      <4> QED BY <4>1 DEF Flips
    <3>2. SearchBit(FALSE, FALSE)
      BY <2>1, <3>1
    <3> QED BY <3>1, <3>2, InPassSearch
  <2> QED BY <1>1, <1>2, <2>3, <2>4 DEF SweepInv
<1>8. CASE \E f, g \in BOOLEAN : NobodyAnswers(f, g)
  <2>1. /\ scan' = "ok" /\ addresses' = addresses
        /\ quiet' => quiet
    BY <1>8 DEF NobodyAnswers, ScanGlitch
  <2> QED BY <1>1, <1>2, <1>3, <1>4, <2>1 DEF SweepInv
<1>9. CASE EndPass
  <2>1. InPass'
    BY <1>9 DEF EndPass, Enumerated, InPass
  <2> QED BY <1>1, <1>2, <1>9, <2>1, EndPassSweeps DEF SweepInv
<1>10. CASE ScanBusError
  BY <1>1, <1>2, <1>3, <1>4, <1>10 DEF ScanBusError, noiseVars, SweepInv
<1> QED BY <1>5, <1>6, <1>7, <1>8, <1>9, <1>10 DEF Scan, ScanStep

LEMMA SweepLoop ==
    ASSUME SweepInv, Loop
    PROVE  SweepInv'
<1>1. TypeOK'
  BY LoopTypes DEF SweepInv
<1>2. CASE Scan
  BY <1>2, SweepScan
<1>3. CASE ~Scan /\ phase = "tick" /\ addresses = <<>>
  <2>1. Rescan /\ phase' = "scan" /\ Len(addresses') = 0
    BY <1>3, AfterRescan DEF SweepInv
  <2>2. BetweenPasses' /\ NoDuplicate'
    BY <2>1 DEF Rescan, BetweenPasses, AllBehind, NoDuplicate
  <2> QED BY <1>1, <2>1, <2>2 DEF Rescan, SweepInv, ScanInPhase, InPass
<1>4. CASE ~Scan /\ ~(phase = "tick" /\ addresses = <<>>)
  <2>1. /\ UNCHANGED <<searchVars, quiet>> /\ scan \notin {"next", "bits"}
    BY <1>4, LoopElsewhere DEF SweepInv
  <2> QED BY <1>1, <2>1
          DEF searchVars, SweepInv, ScanInPhase, BetweenPasses, InPass, NoDuplicate
<1> QED BY <1>2, <1>3, <1>4

LEMMA SweepSensors ==
    ASSUME SweepInv, NEW d \in Sensors, Finish(d) \/ Unplug(d) \/ Plug(d)
    PROVE  SweepInv'
<1>1. TypeOK'
  BY SensorTypes DEF SweepInv
<1>2. CASE Finish(d)
  BY <1>1, <1>2 DEF Finish, searchVars, noiseVars, SweepInv, ScanInPhase, BetweenPasses, InPass,
                    AllBehind, Behind, Turn, Fork, Agrees, NoDuplicate
<1>3. CASE Unplug(d) \/ Plug(d)
  <2>1. /\ scan' = scan /\ phase' = phase /\ addresses' = addresses
        /\ quiet' = (quiet /\ phase # "scan")
    BY <1>3 DEF Unplug, Plug, Hotplug
  <2>2. quiet' => quiet /\ scan' \notin {"next", "bits"}
    BY <2>1 DEF SweepInv, ScanInPhase
  <2>3. BetweenPasses' /\ InPass'
    BY <2>2 DEF BetweenPasses, InPass
  <2>4. NoDuplicate' /\ ScanInPhase'
    BY <2>1, <2>2 DEF SweepInv, NoDuplicate, ScanInPhase
  <2> QED BY <1>1, <2>3, <2>4 DEF SweepInv
<1> QED BY <1>2, <1>3

LEMMA SweepInit == Init => SweepInv
<1> SUFFICES ASSUME Init PROVE SweepInv
  OBVIOUS
<1>1. addresses = <<>> /\ scan = "ok"
  BY DEF Init, ScanInit
<1>2. Len(addresses) = 0
  BY <1>1, EmptySeq
<1>3. NoDuplicate
  BY <1>2 DEF NoDuplicate
<1> QED BY <1>1, <1>3, TypeInit DEF SweepInv, ScanInPhase, BetweenPasses, InPass

\* NoDuplicate for any number of sensors and ROM codes of any length: an
\* undisturbed scan never finds a sensor twice.
THEOREM FoundOnce == Spec => []NoDuplicate
<1>1. SweepInv /\ [Next]_vars => SweepInv'
  <2> SUFFICES ASSUME SweepInv, [Next]_vars PROVE SweepInv'
    OBVIOUS
  <2>1. CASE Loop
    BY <2>1, SweepLoop
  <2>2. CASE \E d \in Sensors : Finish(d) \/ Unplug(d) \/ Plug(d)
    BY <2>2, SweepSensors
  <2>3. CASE UNCHANGED vars
    BY <2>3 DEF vars, searchVars, noiseVars, cycleVars, SweepInv, TypeOK, ScanInPhase,
                BetweenPasses, InPass, AllBehind, Behind, Turn, Fork, Agrees, NoDuplicate
  <2> QED BY <2>1, <2>2, <2>3 DEF Next
<1>2. SweepInv => NoDuplicate
  BY DEF SweepInv
<1> QED BY <1>1, <1>2, SweepInit, PTL DEF Spec

-----------------------------------------------------------------------------
(* One or two sensors are all found.                                       *)

Few == \A a, b, c \in plugged : a = b \/ a = c \/ b = c

LEMMA RomsFinite == IsFiniteSet(Rom)
<1> DEFINE rom == [S \in SUBSET BitNo |-> [i \in BitNo |-> i \in S]]
<1>1. IsFiniteSet(SUBSET BitNo)
  <2>1. RomBits - 1 \in Int
    BY RomAssumption DEF RomAssumption
  <2>2. IsFiniteSet(BitNo)
    BY <2>1, FS_Interval DEF BitNo
  <2> QED BY <2>2, FS_SUBSET
<1>2. rom \in [SUBSET BitNo -> Rom]
  BY DEF Rom
<1>3. ASSUME NEW r \in Rom PROVE \E S \in SUBSET BitNo : rom[S] = r
  <2> DEFINE S == {i \in BitNo : r[i]}
  <2>1. S \in SUBSET BitNo /\ rom[S] = [i \in BitNo |-> i \in S]
    OBVIOUS
  <2>2. \A i \in BitNo : rom[S][i] = r[i]
    BY <2>1 DEF Rom
  <2>3. rom[S] \in Rom
    BY <1>2, <2>1
  <2>4. rom[S] = r
    BY <2>2, <2>3 DEF Rom
  <2> QED BY <2>1, <2>4
<1> HIDE DEF rom
<1>4. rom \in Surjection(SUBSET BitNo, Rom)
  BY <1>2, <1>3 DEF Surjection
<1> QED BY <1>1, <1>4, FS_Surjection

LEMMA TwoAreFew ==
    ASSUME TypeOK, Cardinality(plugged) <= 2
    PROVE  Few
<1> SUFFICES ASSUME NEW a \in plugged, NEW b \in plugged, NEW c \in plugged,
                    a # b, a # c, b # c
             PROVE  FALSE
  BY DEF Few
<1>1. IsFiniteSet(plugged)
  BY RomsFinite, RomTypes, FS_Subset DEF TypeOK
<1> DEFINE P == plugged \ {a}
           Q == P \ {b}
           R == Q \ {c}
<1>2. Cardinality(plugged) \in Nat
  BY <1>1, FS_CardinalityType
<1>3. IsFiniteSet(P) /\ Cardinality(P) = Cardinality(plugged) - 1
  BY <1>1, FS_RemoveElement
<1>4. b \in P
  OBVIOUS
<1>5. IsFiniteSet(Q) /\ Cardinality(Q) = Cardinality(P) - 1
  <2> HIDE DEF P
  <2> QED BY <1>3, <1>4, FS_RemoveElement
<1>6. c \in Q
  OBVIOUS
<1>7. IsFiniteSet(R) /\ Cardinality(R) = Cardinality(Q) - 1
  <2> HIDE DEF P, Q
  <2> QED BY <1>5, <1>6, FS_RemoveElement
<1> HIDE DEF P, Q, R
<1>8. Cardinality(R) \in Nat
  BY <1>7, FS_CardinalityType
<1> QED BY <1>2, <1>3, <1>5, <1>7, <1>8

\* d leaves the path of the search at l, where the search takes 0.
Ahead(d, l) == Agrees(d, l) /\ d[l]

Left == plugged \ Cached

\* What an undisturbed scan has found is there.
FoundSoFar == phase = "scan" /\ scan \in {"next", "bits", "ok"} /\ quiet => Cached \subseteq plugged

\* After a pass a sensor not found leaves its path at the last discrepancy.
NextLeft ==
    scan = "next" /\ quiet /\ Few =>
        /\ complete => Left = {}
        /\ ~complete /\ lastDiscrepancy = None => addresses = <<>>
        /\ ~complete /\ lastDiscrepancy # None => addresses # <<>>
        /\ ~complete /\ lastDiscrepancy # None => \A d \in Left : Ahead(d, lastDiscrepancy)

\* During a pass it is in the search, or left it at the last zero.
PassLeft ==
    scan = "bits" /\ quiet /\ Few =>
        /\ lastDiscrepancy = None <=> addresses = <<>>
        /\ \A d \in Left : d \in active \/ (lastZero # None /\ Ahead(d, lastZero))
        /\ lastDiscrepancy # None /\ bit <= lastDiscrepancy =>
                \A d \in Left : Ahead(d, lastDiscrepancy)

FewFound == ScanOk /\ Few => Cached = plugged

FewInv == SweepInv /\ FoundSoFar /\ NextLeft /\ PassLeft /\ FewFound

LEMMA CachedNone ==
    ASSUME TypeOK
    PROVE  (addresses = <<>> => Cached = {}) /\ (addresses # <<>> => Cached # {})
<1>1. CASE addresses = <<>>
  BY <1>1, EmptySeq DEF Cached
<1>2. CASE addresses # <<>>
  <2>1. Len(addresses) \in Nat /\ Len(addresses) # 0
    BY <1>2, LenProperties, EmptySeq DEF TypeOK
  <2>2. 1 \in 1 .. Len(addresses)
    BY <2>1
  <2> QED BY <1>2, <2>2 DEF Cached
<1> QED BY <1>1, <1>2

\* After the last discrepancy the path of a sensor found earlier is left.
LEMMA FoundIsOff ==
    ASSUME FewInv, scan = "bits", quiet, lastDiscrepancy # None, bit > lastDiscrepancy
    PROVE  Cached \cap active = {}
<1>1. active = {d \in plugged : Agrees(d, bit)} /\ AllBehind /\ address[lastDiscrepancy]
  BY DEF FewInv, SweepInv, InPass
<1>2. bit \in Int /\ lastDiscrepancy \in BitNo
  BY RomTypes DEF FewInv, SweepInv, TypeOK
<1>3. ASSUME NEW k \in 1 .. Len(addresses), Agrees(addresses[k], bit) PROVE FALSE
  <2>1. PICK b \in BitNo : /\ b <= lastDiscrepancy /\ ~addresses[k][b]
                           /\ b < lastDiscrepancy => address[b]
    BY <1>1 DEF AllBehind, Behind
  <2>2. b \in Int /\ lastDiscrepancy \in Int
    BY <1>2, RomTypes
  <2>3. address[b]
    BY <1>1, <2>1, <2>2
  <2>4. b < bit
    BY <1>2, <2>1, <2>2
  <2> QED BY <1>3, <2>1, <2>3, <2>4 DEF Agrees
<1> QED BY <1>1, <1>3 DEF Cached

\* A fork of the search: one of few sensors goes on, one leaves.
LEMMA ForkOfFew ==
    ASSUME FewInv, quiet, Few, SearchBit(FALSE, FALSE), ~BitSlot, ~ComplementSlot
    PROVE  /\ bit > lastDiscrepancy => lastDiscrepancy = None /\ plugged \subseteq active
           /\ \A d \in Left : d \in active
<1>1. scan = "bits" /\ bit < RomBits
  BY DEF SearchBit
<1>2. /\ TypeOK /\ active # {} /\ active = {d \in plugged : Agrees(d, bit)}
  BY <1>1 DEF FewInv, SweepInv, InPass
<1>3. bit \in BitNo
  BY <1>1, <1>2, RomTypes DEF TypeOK
<1>4. PICK d \in active : d[bit] = FALSE
  BY <1>2, <1>3, SlotsTell
<1>5. PICK e \in active : e[bit] = TRUE
  BY <1>2, <1>3, SlotsTell
<1>6. d # e /\ d \in plugged /\ e \in plugged
  BY <1>2, <1>4, <1>5
<1>7. \A c \in plugged : c = d \/ c = e
  BY <1>6 DEF Few
<1>8. plugged \subseteq active
  BY <1>4, <1>5, <1>7
<1>9. ASSUME bit > lastDiscrepancy, lastDiscrepancy # None PROVE FALSE
  <2>1. addresses # <<>>
    BY <1>1, <1>9 DEF FewInv, PassLeft
  <2>2. PICK c \in Cached : TRUE
    BY <1>2, <2>1, CachedNone
  <2>3. c \in plugged
    BY <1>1, <2>2 DEF FewInv, SweepInv, ScanInPhase, FoundSoFar
  <2> QED BY <1>1, <1>8, <1>9, <2>2, <2>3, FoundIsOff
<1> QED BY <1>8, <1>9 DEF Left

LEMMA PassLeftSearch ==
    ASSUME FewInv, quiet, Few, SearchBit(FALSE, FALSE)
    PROVE  PassLeft'
<1> DEFINE l == lastDiscrepancy
<1>1. /\ scan = "bits" /\ bit < RomBits /\ lastDiscrepancy' = l /\ addresses' = addresses
      /\ plugged' = plugged /\ bit' = bit + 1
  BY DEF SearchBit, ScanGlitch, Glitch
<1>2. Left' = Left /\ Left \subseteq plugged
  BY <1>1 DEF Left, Cached
<1>3. /\ TypeOK /\ active # {} /\ active = {d \in plugged : Agrees(d, bit)}
      /\ lastZero # None => lastZero < bit
  BY <1>1 DEF FewInv, SweepInv, InPass
<1>4. /\ bit \in BitNo /\ bit \in Int /\ l \in Int /\ lastZero \in Int
      /\ address'[bit] = Direction(BitSlot, ComplementSlot)
      /\ active' = {d \in active : d[bit] = address'[bit]}
      /\ lastZero' = LastZero(BitSlot, ComplementSlot)
      /\ BitSlot \in BOOLEAN /\ ComplementSlot \in BOOLEAN
  <2>1. bit \in BitNo /\ bit \in Int /\ l \in Int /\ lastZero \in Int
    BY <1>1, <1>3, RomTypes DEF TypeOK, None
  <2>2. BitSlot \in BOOLEAN /\ ComplementSlot \in BOOLEAN
    BY <1>3, <2>1, SlotsTell
  <2>3. /\ address'[bit] = Direction(BitSlot, ComplementSlot)
        /\ active' = {d \in active : d[bit] = address'[bit]}
        /\ lastZero' = LastZero(BitSlot, ComplementSlot)
    BY <1>3, TrueSlots
  <2> QED BY <2>1, <2>2, <2>3
<1>5. /\ l = None <=> addresses = <<>>
      /\ \A d \in Left : d \in active \/ (lastZero # None /\ Ahead(d, lastZero))
      /\ l # None /\ bit <= l => \A d \in Left : Ahead(d, l)
  BY <1>1 DEF FewInv, PassLeft
<1>6. ASSUME NEW d \in Left, lastZero # None, Ahead(d, lastZero), lastZero' = lastZero
      PROVE  lastZero' # None /\ Ahead(d, lastZero)'
  <2>1. lastZero <= bit
    BY <1>3, <1>4, <1>6
  <2> QED BY <1>3, <1>4, <1>6, <2>1, AgreesKept DEF Ahead
<1>7. ASSUME NEW d \in Left
      PROVE  d \in active' \/ (lastZero' # None /\ Ahead(d, lastZero)')
  <2>1. CASE ~BitSlot /\ ~ComplementSlot /\ bit > l
    <3>1. lastZero' = bit /\ l = None /\ plugged \subseteq active
      BY <2>1, <1>4, ForkOfFew DEF LastZero
    <3>2. address'[bit] = FALSE
      BY <2>1, <1>4 DEF Direction
    <3>3. d \in active
      BY <3>1, <1>2
    <3>4. d[bit] \in BOOLEAN /\ Agrees(d, bit)
      BY <3>3, <1>3, <1>4, SlotsTell
    <3>5. CASE d[bit] = FALSE
      BY <3>2, <3>3, <3>5, <1>4
    <3>6. CASE d[bit] = TRUE
      <4>1. Agrees(d, bit) <=> Agrees(d, lastZero)'
        BY <3>1, <1>3, <1>4, AgreesKept
      <4>2. bit # None
        BY <1>4, RomTypes DEF None
      <4> QED BY <3>1, <3>4, <3>6, <4>1, <4>2 DEF Ahead
    <3> QED BY <3>4, <3>5, <3>6
  <2>2. CASE ~(~BitSlot /\ ~ComplementSlot /\ bit > l)
    <3>1. lastZero' = lastZero
      BY <2>2, <1>4 DEF LastZero
    <3>2. CASE d \notin active
      BY <3>1, <3>2, <1>5, <1>6
    <3>3. CASE d \in active
      <4>1. d[bit] = address'[bit]
        <5>1. CASE BitSlot
          <6>1. address'[bit] = TRUE /\ d[bit] = TRUE
            BY <5>1, <3>3, <1>3, <1>4, SlotsTell DEF Direction
          <6> QED BY <6>1
        <5>2. CASE ComplementSlot
          <6>1. address'[bit] = FALSE /\ d[bit] = FALSE
            BY <5>2, <3>3, <1>3, <1>4, SlotsTell DEF Direction
          <6> QED BY <6>1
        <5>3. CASE ~BitSlot /\ ~ComplementSlot /\ bit = l
          <6>1. address'[bit] = TRUE
            BY <5>3, <1>4 DEF Direction
          <6>2. l # None /\ bit <= l
            BY <5>3, <1>4, RomTypes DEF None
          <6>3. d[bit]
            BY <5>3, <6>2, <1>5 DEF Ahead
          <6> QED BY <6>1, <6>3, <3>3, <1>3, <1>4, SlotsTell
        <5>4. CASE ~BitSlot /\ ~ComplementSlot /\ bit < l
          <6>1. address' = address
            BY <5>4, RepeatsPath DEF FewInv
          <6>2. l # None /\ bit <= l
            BY <5>4, <1>4, RomTypes DEF None
          <6>3. Agrees(d, l)
            BY <6>2, <1>5 DEF Ahead
          <6> QED BY <5>4, <6>1, <6>3, <1>4 DEF Agrees
        <5> QED BY <5>1, <5>2, <5>3, <5>4, <2>2, <1>4
      <4> QED BY <3>3, <4>1, <1>4
    <3> QED BY <3>2, <3>3
  <2> QED BY <2>1, <2>2
<1>8. ASSUME l # None, bit' <= l, NEW d \in Left PROVE Ahead(d, l)'
  <2>1. bit < l /\ bit <= l
    BY <1>1, <1>4, <1>8
  <2>2. address' = address
    BY <2>1, RepeatsPath DEF FewInv
  <2>3. Ahead(d, l)
    BY <1>5, <1>8, <2>1
  <2> QED BY <1>1, <2>2, <2>3 DEF Ahead, Agrees
<1> QED BY <1>1, <1>2, <1>5, <1>7, <1>8 DEF PassLeft

LEMMA FewEndPass ==
    ASSUME FewInv, EndPass
    PROVE  FoundSoFar' /\ NextLeft'
<1> SUFFICES ASSUME quiet', scan' = "next" PROVE Cached' \subseteq plugged' /\ NextLeft'
  BY DEF EndPass, Enumerated, FoundSoFar, NextLeft
<1>1. /\ scan = "bits" /\ bit = RomBits /\ quiet /\ plugged' = plugged /\ address' = address
      /\ lastDiscrepancy' = lastZero /\ complete' = (lastZero = None)
  BY DEF EndPass, noiseVars
<1>2. /\ TypeOK /\ active = {d \in plugged : Agrees(d, RomBits)} /\ active # {}
      /\ Cached \subseteq plugged
  BY <1>1 DEF FewInv, SweepInv, InPass, ScanInPhase, FoundSoFar
<1>3. \A d \in active : d = address
  BY <1>2, AgreesAll, RomTypes DEF TypeOK
<1>4. address \in plugged /\ CrcOk(address)
  BY <1>2, <1>3 DEF TypeOK, Sensors
<1>5. Len(addresses) < MaxSensors /\ addresses' = Append(addresses, address)
  <2>1. Len(addresses) # MaxSensors
    BY <1>4 DEF EndPass, Enumerated
  <2>2. Len(addresses) \in Nat /\ Len(addresses) <= MaxSensors /\ MaxSensors \in Nat
    BY <1>2, LenProperties, RomAssumption DEF RomAssumption, TypeOK
  <2> QED BY <1>4, <2>1, <2>2 DEF EndPass, Enumerated
<1>6. Len(addresses) \in Nat /\ addresses \in Seq(Rom) /\ address \in Rom
  BY <1>2, LenProperties DEF TypeOK
<1>7. /\ Len(addresses') = Len(addresses) + 1
      /\ \A k \in 1 .. Len(addresses) : addresses'[k] = addresses[k]
      /\ addresses'[Len(addresses) + 1] = address
      /\ addresses' # <<>>
  BY <1>5, <1>6, AppendProperties
<1>8. Cached' = Cached \cup {address}
  <2>1. ASSUME NEW a \in Cached' PROVE a \in Cached \cup {address}
    <3>1. PICK k \in 1 .. Len(addresses') : a = addresses'[k]
      BY <2>1 DEF Cached
    <3>2. k \in 1 .. Len(addresses) \/ k = Len(addresses) + 1
      BY <1>6, <1>7, <3>1
    <3> QED BY <1>7, <3>1, <3>2 DEF Cached
  <2>2. ASSUME NEW k \in 1 .. Len(addresses) PROVE addresses[k] \in Cached'
    <3>1. k \in 1 .. Len(addresses') /\ addresses'[k] = addresses[k]
      BY <1>6, <1>7, <2>2
    <3> QED BY <3>1 DEF Cached
  <2>3. address \in Cached'
    <3>1. Len(addresses) + 1 \in 1 .. Len(addresses')
      BY <1>6, <1>7
    <3> QED BY <1>7, <3>1 DEF Cached
  <2>4. Cached \subseteq Cached'
    BY <2>2 DEF Cached
  <2> QED BY <2>1, <2>3, <2>4
<1>9. NextLeft'
  <2> SUFFICES ASSUME Few
               PROVE  /\ lastZero = None => Left' = {}
                      /\ lastZero # None => \A d \in Left' : Ahead(d, lastDiscrepancy)'
    BY <1>1, <1>7 DEF NextLeft, Few
  <2>1. Left' = Left \ {address}
    BY <1>1, <1>8 DEF Left
  <2>2. \A d \in Left : d \in active \/ (lastZero # None /\ Ahead(d, lastZero))
    BY <1>1 DEF FewInv, PassLeft
  <2>3. \A d \in Left' : lastZero # None /\ Ahead(d, lastZero)
    BY <1>3, <2>1, <2>2
  <2>4. \A d \in Left' : Ahead(d, lastDiscrepancy)'
    BY <1>1, <2>3 DEF Ahead, Agrees
  <2> QED BY <2>3, <2>4
<1> QED BY <1>1, <1>2, <1>4, <1>8, <1>9

LEMMA FewScans ==
    ASSUME FewInv, Scan
    PROVE  FewInv'
<1>1. SweepInv'
  BY SweepScan DEF FewInv
<1>2. phase = "scan" /\ phase' = "scan"
  BY DEF Scan, cycleVars
<1>3. ASSUME scan' \notin {"next", "bits", "ok"}
      PROVE  FoundSoFar' /\ NextLeft' /\ PassLeft' /\ FewFound'
  BY <1>3 DEF FoundSoFar, NextLeft, PassLeft, FewFound, ScanOk
<1>4. ASSUME addresses' = addresses, plugged' = plugged, quiet' => quiet,
             scan \in {"next", "bits"}
      PROVE  FoundSoFar' /\ Cached' = Cached /\ Left' = Left /\ (Few' <=> Few)
  BY <1>2, <1>4 DEF FewInv, FoundSoFar, Cached, Left, Few
<1>5. CASE SearchComplete
  <2>1. /\ scan = "next" /\ scan' = "ok" /\ complete /\ addresses' = addresses
        /\ plugged' = plugged /\ quiet' = quiet
    BY <1>5 DEF SearchComplete, noiseVars
  <2>2. FewFound'
    <3> SUFFICES ASSUME quiet, Few PROVE Cached' = plugged'
      BY <2>1, <1>4 DEF FewFound, ScanOk
    <3>1. Left = {} /\ Cached \subseteq plugged
      BY <2>1, <1>2 DEF FewInv, NextLeft, FoundSoFar
    <3> QED BY <2>1, <3>1, <1>4 DEF Left
  <2> QED BY <1>1, <1>4, <2>1, <2>2 DEF FewInv, NextLeft, PassLeft
<1>6. CASE \E flip \in BOOLEAN : StartPass(flip)
  <2>1. PICK flip \in BOOLEAN : StartPass(flip)
    BY <1>6
  <2>2. /\ scan = "next" /\ ~complete /\ scan' \in {"bits", "ok"} /\ lastZero' = None /\ bit' = 0
        /\ active' = plugged /\ plugged' = plugged
        /\ quiet' => quiet /\ Flips(flip) = 0
        /\ UNCHANGED <<addresses, address, lastDiscrepancy>>
    BY <2>1 DEF StartPass, ScanGlitch, Glitch
  <2>3. FewFound'
    <3> SUFFICES ASSUME scan' = "ok", quiet' PROVE Cached' = plugged'
      BY DEF FewFound, ScanOk
    <3>1. flip = FALSE
      BY <2>2 DEF Flips
    <3>2. plugged = {}
      BY <2>1, <3>1 DEF StartPass
    <3>3. Cached \subseteq plugged
      BY <2>2, <1>2 DEF FewInv, FoundSoFar
    <3> QED BY <2>2, <3>2, <3>3, <1>4
  <2>4. PassLeft'
    <3> SUFFICES ASSUME quiet, Few
                 PROVE  /\ lastDiscrepancy = None <=> addresses = <<>>
                        /\ \A d \in Left : d \in plugged
                        /\ lastDiscrepancy # None => \A d \in Left : Ahead(d, lastDiscrepancy)'
      BY <2>2, <1>4 DEF PassLeft
    <3>1. /\ lastDiscrepancy = None <=> addresses = <<>>
          /\ lastDiscrepancy # None => \A d \in Left : Ahead(d, lastDiscrepancy)
      BY <2>2 DEF FewInv, NextLeft
    <3> QED BY <2>2, <3>1 DEF Left, Ahead, Agrees
  <2> QED BY <1>1, <1>4, <2>2, <2>3, <2>4 DEF FewInv, NextLeft
<1>7. CASE \E f, g \in BOOLEAN : SearchBit(f, g)
  <2>1. PICK f \in BOOLEAN, g \in BOOLEAN : SearchBit(f, g)
    BY <1>7
  <2>2. /\ scan = "bits" /\ scan' = scan /\ addresses' = addresses /\ plugged' = plugged
        /\ quiet' => quiet /\ Flips(f) + Flips(g) = 0
    BY <2>1 DEF SearchBit, ScanGlitch, Glitch
  <2>3. PassLeft'
    <3> SUFFICES ASSUME quiet', Few PROVE PassLeft'
      BY <2>2, <1>4 DEF PassLeft
    <3>1. f = FALSE /\ g = FALSE /\ quiet
      <4>1. Flips(f) = 0 /\ Flips(g) = 0 /\ quiet
        BY <2>2, FlipsType
      <4> QED BY <4>1 DEF Flips
    <3>2. SearchBit(FALSE, FALSE)
      BY <2>1, <3>1
    <3> QED BY <3>1, <3>2, PassLeftSearch
  <2> QED BY <1>1, <1>4, <2>2, <2>3 DEF FewInv, NextLeft, FewFound, ScanOk
<1>8. CASE \E f, g \in BOOLEAN : NobodyAnswers(f, g)
  <2>1. PICK f \in BOOLEAN, g \in BOOLEAN : NobodyAnswers(f, g)
    BY <1>8
  <2>2. /\ scan = "bits" /\ scan' = "ok" /\ addresses' = addresses /\ plugged' = plugged
        /\ BitSlot # f /\ ComplementSlot # g /\ bit < RomBits
        /\ quiet' => quiet /\ Flips(f) + Flips(g) = 0
    BY <2>1 DEF NobodyAnswers, ScanGlitch, Glitch
  <2>3. ~quiet'
    <3> SUFFICES ASSUME quiet' PROVE FALSE
      OBVIOUS
    <3>1. f = FALSE /\ g = FALSE /\ quiet
      <4>1. Flips(f) = 0 /\ Flips(g) = 0 /\ quiet
        BY <2>2, FlipsType
      <4> QED BY <4>1 DEF Flips
    <3>2. TypeOK /\ active # {} /\ bit \in BitNo
      BY <2>2, <3>1, RomTypes DEF FewInv, SweepInv, InPass, TypeOK
    <3> QED BY <2>2, <3>1, <3>2, SlotsTell
  <2> QED BY <1>1, <2>2, <2>3 DEF FewInv, FoundSoFar, NextLeft, PassLeft, FewFound, ScanOk
<1>9. CASE EndPass
  <2>1. scan' \notin {"bits", "ok"}
    BY <1>9 DEF EndPass, Enumerated
  <2> QED BY <1>1, <1>9, <2>1, FewEndPass DEF FewInv, PassLeft, FewFound, ScanOk
<1>10. CASE ScanBusError
  <2>1. scan' = "OneWireError"
    BY <1>10 DEF ScanBusError
  <2> QED BY <1>1, <1>3, <2>1 DEF FewInv
<1> QED BY <1>5, <1>6, <1>7, <1>8, <1>9, <1>10 DEF Scan, ScanStep

LEMMA FewLoop ==
    ASSUME FewInv, Loop
    PROVE  FewInv'
<1>1. SweepInv'
  BY SweepLoop DEF FewInv
<1>2. CASE Scan
  BY <1>2, FewScans
<1>3. CASE ~Scan /\ phase = "tick" /\ addresses = <<>>
  <2>1. Rescan /\ phase' = "scan" /\ Len(addresses') = 0
    BY <1>3, AfterRescan DEF FewInv, SweepInv
  <2>2. Cached' = {} /\ addresses' = <<>> /\ scan' = "next" /\ lastDiscrepancy' = None /\ ~complete'
    BY <2>1 DEF Rescan, Cached
  <2> QED BY <1>1, <2>2 DEF FewInv, FoundSoFar, NextLeft, PassLeft, FewFound, ScanOk
<1>4. CASE ~Scan /\ ~(phase = "tick" /\ addresses = <<>>)
  <2>1. UNCHANGED <<searchVars, plugged, quiet>> /\ scan \notin {"next", "bits"}
    BY <1>4, LoopElsewhere DEF FewInv, SweepInv
  <2>2. phase' = "scan" => phase = "scan"
    BY <1>4 DEF Loop, StartCycle, ScanReturns, Stop, Convert, Converted, PollAgain,
                ConversionTimeout, ReadSensor, Report, BusError
  <2> QED BY <1>1, <2>1, <2>2
          DEF searchVars, FewInv, FoundSoFar, NextLeft, PassLeft, FewFound, ScanOk, Few, Cached
<1> QED BY <1>2, <1>3, <1>4

LEMMA FewSensors ==
    ASSUME FewInv, NEW d \in Sensors, Finish(d) \/ Unplug(d) \/ Plug(d)
    PROVE  FewInv'
<1>1. SweepInv'
  BY SweepSensors DEF FewInv
<1>2. CASE Finish(d)
  BY <1>1, <1>2 DEF Finish, searchVars, noiseVars, FewInv, FoundSoFar, NextLeft, PassLeft,
                    FewFound, ScanOk, Few, Left, Cached, Ahead, Agrees
<1>3. CASE Unplug(d) \/ Plug(d)
  <2>1. /\ scan' = scan /\ phase' = phase
        /\ quiet' = (quiet /\ phase # "scan")
    BY <1>3 DEF Unplug, Plug, Hotplug
  <2>2. phase = "scan" => ~quiet'
    BY <2>1
  <2>3. quiet' => scan' \notin {"next", "bits"}
    BY <2>1, <2>2 DEF FewInv, SweepInv, ScanInPhase
  <2> QED BY <1>1, <2>1, <2>2, <2>3
          DEF FewInv, FoundSoFar, NextLeft, PassLeft, FewFound, ScanOk
<1> QED BY <1>2, <1>3

LEMMA FewInit == Init => FewInv
BY SweepInit DEF Init, ScanInit, FewInv, FoundSoFar, NextLeft, PassLeft, FewFound, ScanOk

\* TwoSensorsFound for ROM codes of any length, also where a hotplug before the
\* scan left these two: an undisturbed scan of two finds both.
THEOREM TwoAreFound == Spec => []TwoSensorsFound
<1>1. FewInv /\ [Next]_vars => FewInv'
  <2> SUFFICES ASSUME FewInv, [Next]_vars PROVE FewInv'
    OBVIOUS
  <2>1. CASE Loop
    BY <2>1, FewLoop
  <2>2. CASE \E d \in Sensors : Finish(d) \/ Unplug(d) \/ Plug(d)
    BY <2>2, FewSensors
  <2>3. CASE UNCHANGED vars
    <3>1. SweepInv'
      BY <2>3 DEF vars, searchVars, noiseVars, cycleVars, FewInv, SweepInv, TypeOK, ScanInPhase,
                BetweenPasses, InPass, AllBehind, Behind, Turn, Fork, Agrees, NoDuplicate
    <3> QED BY <2>3, <3>1 DEF vars, searchVars, noiseVars, cycleVars, FewInv, FoundSoFar,
                NextLeft, PassLeft, FewFound, ScanOk, Few, Left, Cached, Ahead, Agrees
  <2> QED BY <2>1, <2>2, <2>3 DEF Next
<1>2. FewInv => TwoSensorsFound
  BY TwoAreFew DEF FewInv, SweepInv, FewFound, TwoSensorsFound
<1> QED BY <1>1, <1>2, FewInit, PTL DEF Spec

-----------------------------------------------------------------------------
(* The conversion and its readings.                                        *)

\* TimeoutIsReal for any limit that leaves the task room to run late.
THEOREM TimeoutsReal == Spec => []TimeoutIsReal
<1>1. Init => TimeoutIsReal
  BY DEF Init, TimeoutIsReal
<1>2. TypeOK /\ TimeoutIsReal /\ [Next]_vars => TimeoutIsReal'
  <2> SUFFICES ASSUME TypeOK, TimeoutIsReal, [Next]_vars, failure' = "ConversionTimeout"
               PROVE  dead' # {} \/ glitches' > 0
    BY DEF TimeoutIsReal
  <2>1. CASE UNCHANGED vars
    BY <2>1 DEF vars, noiseVars, cycleVars, TimeoutIsReal
  <2>2. ASSUME failure = "ConversionTimeout", dead' = dead, glitches' = glitches
        PROVE  dead' # {} \/ glitches' > 0
    BY <2>2 DEF TimeoutIsReal
  <2>3. ASSUME NEW n \in {0, 1}, Glitch(n), failure' = failure, dead' = dead
        PROVE  dead' # {} \/ glitches' > 0
    BY <2>3 DEF Glitch, TypeOK, TimeoutIsReal
  <2>4. CASE StartCycle
    BY <2>2, <2>4 DEF StartCycle, Rescan, noiseVars
  <2>5. CASE Scan
    <3>1. glitches' >= glitches
      BY <2>5, FlipsType DEF Scan, ScanStep, SearchComplete, StartPass, SearchBit, NobodyAnswers,
                  EndPass, ScanBusError, ScanGlitch, Glitch, noiseVars, TypeOK
    <3>2. failure' = failure /\ dead' = dead
      BY <2>5 DEF Scan, cycleVars
    <3>3. glitches \in Int /\ glitches' \in Int
      <4>1. TypeOK'
        BY <2>5, ScanTypes
      <4> QED BY <4>1 DEF TypeOK
    <3> QED BY <3>1, <3>2, <3>3 DEF TimeoutIsReal
  <2>6. CASE ScanReturns
    <3>1. failure = "ConversionTimeout"
      BY <2>6 DEF ScanReturns, Stop, TypeOK
    <3> QED BY <2>2, <2>6, <3>1 DEF ScanReturns, noiseVars
  <2>7. CASE Convert
    BY <2>2, <2>7 DEF Convert, noiseVars
  <2>8. CASE \E flip \in BOOLEAN : Converted(flip)
    BY <2>3, <2>8, FlipsType DEF Converted, Sample
  <2>9. CASE \E flip \in BOOLEAN, late \in 0 .. MaxLate : PollAgain(flip, late)
    BY <2>3, <2>9, FlipsType DEF PollAgain, Sample
  <2>10. CASE \E flip \in BOOLEAN, late \in 0 .. MaxLate : ConversionTimeout(flip, late)
    <3>1. PICK flip \in BOOLEAN, late \in 0 .. MaxLate : ConversionTimeout(flip, late)
      BY <2>10
    <3>2. CASE flip
      <4>1. glitches' = glitches + 1
        BY <3>1, <3>2 DEF ConversionTimeout, Sample, Glitch, Flips
      <4> QED BY <4>1 DEF TypeOK
    <3>3. CASE ~flip
      <4>1. busy # {} /\ now + late > TimeLimit /\ (now >= ConvTime => busy \subseteq dead)
        BY <3>1, <3>3 DEF ConversionTimeout, Sample, TimedOut
      <4>2. now >= ConvTime
        BY <4>1, TimeAssumption DEF TimeAssumption, TypeOK
      <4>3. dead' = dead
        BY <3>1 DEF ConversionTimeout, Sample
      <4> QED BY <4>1, <4>2, <4>3
    <3> QED BY <3>2, <3>3
  <2>11. CASE \E fails \in BOOLEAN : ReadSensor(fails)
    BY <2>3, <2>11, FlipsType DEF ReadSensor
  <2>12. CASE Report
    BY <2>2, <2>12 DEF Report, noiseVars
  <2>13. CASE BusError
    BY <2>13 DEF BusError, Stop
  <2>14. CASE \E d \in Sensors : Finish(d) \/ Unplug(d) \/ Plug(d)
    BY <2>2, <2>14 DEF Finish, Unplug, Plug, Hotplug, noiseVars
  <2> QED BY <2>1, <2>4, <2>5, <2>6, <2>7, <2>8, <2>9, <2>10, <2>11, <2>12, <2>13, <2>14
          DEF Next, Loop
<1> QED BY <1>1, <1>2, TypeCorrect, PTL DEF Spec

\* In a calm cycle a sensor converts or has converted, and once the poll is
\* over they all have.
CalmPoll == phase = "poll" /\ calm => plugged \subseteq busy \cup sampled
CalmRead ==
    phase = "read" /\ calm =>
        /\ plugged \subseteq sampled
        /\ \A k \in 1 .. Len(temps) : temps[k].fresh

FreshInv == TypeOK /\ CalmPoll /\ CalmRead /\ FreshReport

LEMMA FreshReading ==
    ASSUME FreshInv, NEW fails \in BOOLEAN, ReadSensor(fails)
    PROVE  CalmRead'
<1> SUFFICES ASSUME calm' PROVE plugged' \subseteq sampled' /\ \A k \in 1 .. Len(temps') : temps'[k].fresh
  BY DEF CalmRead
<1>1. phase = "read" /\ calm /\ plugged' = plugged /\ sampled' = sampled
  BY DEF ReadSensor, Glitch
<1>2. plugged \subseteq sampled /\ \A k \in 1 .. Len(temps) : temps[k].fresh
  BY <1>1 DEF FreshInv, CalmRead
<1> DEFINE a == addresses[cursor]
           r == [rom |-> a, fresh |-> a \in sampled]
<1>3. CASE temps' = temps
  BY <1>1, <1>2, <1>3
<1>4. CASE temps' # temps
  <2>1. a \in plugged /\ temps' = Append(temps, r)
    BY <1>4 DEF ReadSensor
  <2>2. a \in sampled
    BY <1>2, <2>1
  <2>3. a \in Rom
    BY <2>1, RomTypes DEF FreshInv, TypeOK
  <2>4. r \in Reading /\ r.fresh
    BY <2>2, <2>3 DEF Reading
  <2>5. temps \in Seq(Reading) /\ Len(temps) \in Nat
    BY LenProperties DEF FreshInv, TypeOK
  <2> HIDE DEF r
  <2>6. /\ Len(Append(temps, r)) = Len(temps) + 1
        /\ \A k \in 1 .. Len(temps) : Append(temps, r)[k] = temps[k]
        /\ Append(temps, r)[Len(temps) + 1] = r
    BY <2>4, <2>5, AppendProperties
  <2>7. ASSUME NEW k \in 1 .. Len(temps') PROVE temps'[k].fresh
    <3>1. CASE k = Len(temps) + 1
      BY <2>1, <2>4, <2>6, <3>1
    <3>2. CASE k # Len(temps) + 1
      <4>1. k \in 1 .. Len(temps)
        BY <2>1, <2>5, <2>6, <3>2
      <4> QED BY <1>2, <2>1, <2>6, <4>1
    <3> QED BY <3>1, <3>2
  <2> QED BY <1>1, <1>2, <2>7
<1> QED BY <1>3, <1>4

LEMMA FreshReported ==
    ASSUME FreshInv, Report
    PROVE  FreshReport'
<1> SUFFICES ASSUME calm, NEW k \in 1 .. Len(report') PROVE report'[k].fresh
  BY DEF Report, FreshReport
<1>1. /\ phase = "read" /\ report' = Buffer(temps)
      /\ \A j \in 1 .. Len(temps) : temps[j].fresh
  BY DEF Report, FreshInv, CalmRead
<1> DEFINE n == IF Len(temps) < BufSize THEN Len(temps) ELSE BufSize
<1>2. temps \in Seq(Reading) /\ Len(temps) \in Nat /\ n \in 0 .. Len(temps)
  BY LenProperties, TimeAssumption DEF TimeAssumption, FreshInv, TypeOK
<1>3. \A i \in 1 .. n : temps[i] \in Reading
  BY <1>2, ElementOfSeq
<1>4. /\ Len(SubSeq(temps, 1, n)) = n
      /\ \A i \in 1 .. n : SubSeq(temps, 1, n)[i] = temps[i]
  BY <1>2, <1>3, SubSeqProperties
<1>5. report' = SubSeq(temps, 1, n)
  BY <1>1 DEF Buffer
<1> HIDE DEF n
<1>6. k \in 1 .. n
  BY <1>4, <1>5
<1>7. k \in 1 .. Len(temps)
  BY <1>2, <1>6
<1> QED BY <1>1, <1>4, <1>5, <1>6, <1>7

LEMMA FreshLoop ==
    ASSUME FreshInv, Loop
    PROVE  FreshInv'
<1>1. TypeOK'
  BY LoopTypes DEF FreshInv
<1>2. CASE StartCycle
  BY <1>1, <1>2 DEF StartCycle, FreshInv, CalmPoll, CalmRead, FreshReport
<1>3. CASE Scan
  BY <1>1, <1>3 DEF Scan, cycleVars, FreshInv, CalmPoll, CalmRead, FreshReport
<1>4. CASE ScanReturns
  BY <1>1, <1>4 DEF ScanReturns, Stop, FreshInv, CalmPoll, CalmRead, FreshReport
<1>5. CASE Convert
  BY <1>1, <1>5 DEF Convert, noiseVars, FreshInv, CalmPoll, CalmRead, FreshReport
<1>6. CASE \E flip \in BOOLEAN : Converted(flip)
  <2>1. PICK flip \in BOOLEAN : Converted(flip)
    BY <1>6
  <2>2. /\ phase = "poll" /\ phase' = "read" /\ temps' = <<>> /\ (busy = {}) # flip
        /\ plugged' = plugged /\ sampled' = sampled
    BY <2>1 DEF Converted, Sample, Glitch
  <2>3. calm' => calm /\ flip = FALSE
    BY <2>1 DEF Converted, Sample
  <2>4. Len(temps') = 0
    BY <2>2, EmptySeq
  <2>5. CalmRead'
    BY <2>2, <2>3, <2>4 DEF FreshInv, CalmPoll, CalmRead
  <2> QED BY <1>1, <2>2, <2>5 DEF FreshInv, CalmPoll, FreshReport
<1>7. CASE \E flip \in BOOLEAN, late \in 0 .. MaxLate : PollAgain(flip, late)
  <2>1. /\ phase = "poll" /\ phase' = phase /\ plugged' = plugged
        /\ busy' = busy /\ sampled' = sampled
    BY <1>7 DEF PollAgain, Sample, Glitch
  <2>2. calm' => calm
    BY <1>7 DEF PollAgain, Sample
  <2> QED BY <1>1, <2>1, <2>2 DEF FreshInv, CalmPoll, CalmRead, FreshReport
<1>8. CASE \E flip \in BOOLEAN, late \in 0 .. MaxLate : ConversionTimeout(flip, late)
  BY <1>1, <1>8 DEF ConversionTimeout, Stop, FreshInv, CalmPoll, CalmRead, FreshReport
<1>9. CASE \E fails \in BOOLEAN : ReadSensor(fails)
  <2>1. CalmRead'
    BY <1>9, FreshReading
  <2>2. phase' = "read"
    BY <1>9 DEF ReadSensor
  <2> QED BY <1>1, <2>1, <2>2 DEF FreshInv, CalmPoll, FreshReport
<1>10. CASE Report
  <2>1. FreshReport'
    BY <1>10, FreshReported
  <2>2. phase' = "tick"
    BY <1>10 DEF Report
  <2> QED BY <1>1, <2>1, <2>2 DEF FreshInv, CalmPoll, CalmRead
<1>11. CASE BusError
  BY <1>1, <1>11 DEF BusError, Stop, FreshInv, CalmPoll, CalmRead, FreshReport
<1> QED BY <1>2, <1>3, <1>4, <1>5, <1>6, <1>7, <1>8, <1>9, <1>10, <1>11 DEF Loop

\* FreshReport for any number of sensors: an undisturbed cycle reports no value
\* of an earlier conversion.
THEOREM ReportsFresh == Spec => []FreshReport
<1>1. Init => FreshInv
  <2> SUFFICES ASSUME Init PROVE FreshInv
    OBVIOUS
  <2>1. report = <<>> /\ phase = "tick"
    BY DEF Init
  <2>2. Len(report) = 0
    BY <2>1, EmptySeq
  <2> QED BY <2>1, <2>2, TypeInit DEF FreshInv, CalmPoll, CalmRead, FreshReport
<1>2. FreshInv /\ [Next]_vars => FreshInv'
  <2> SUFFICES ASSUME FreshInv, [Next]_vars PROVE FreshInv'
    OBVIOUS
  <2>1. CASE Loop
    BY <2>1, FreshLoop
  <2>2. ASSUME NEW d \in Sensors, Finish(d) PROVE FreshInv'
    <3>1. TypeOK'
      BY <2>2, SensorTypes DEF FreshInv
    <3> QED BY <2>2, <3>1 DEF Finish, noiseVars, FreshInv, CalmPoll, CalmRead, FreshReport
  <2>3. ASSUME NEW d \in Sensors, Unplug(d) \/ Plug(d) PROVE FreshInv'
    <3>1. TypeOK'
      BY <2>3, SensorTypes DEF FreshInv
    <3>2. calm' = FALSE
      BY <2>3 DEF Unplug, Plug, Hotplug
    <3> QED BY <3>1, <3>2 DEF FreshInv, CalmPoll, CalmRead, FreshReport
  <2>4. CASE UNCHANGED vars
    BY <2>4 DEF vars, searchVars, noiseVars, cycleVars, FreshInv, TypeOK, CalmPoll, CalmRead,
                FreshReport
  <2> QED BY <2>1, <2>2, <2>3, <2>4 DEF Next
<1>3. FreshInv => FreshReport
  BY DEF FreshInv
<1> QED BY <1>1, <1>2, <1>3, PTL DEF Spec

-----------------------------------------------------------------------------
(* A report leaves no sensor out.                                          *)

LEMMA PlacesGrow ==
    ASSUME NEW s, NEW S, NEW n \in Nat
    PROVE  /\ Places(s, S, n + 1) = Places(s, S, n) \cup (IF s[n + 1] \in S THEN {n + 1} ELSE {})
           /\ Cardinality(Places(s, S, n)) \in Nat
           /\ Cardinality(Places(s, S, n + 1)) =
                Cardinality(Places(s, S, n)) + (IF s[n + 1] \in S THEN 1 ELSE 0)
<1>1. Places(s, S, n + 1) = Places(s, S, n) \cup (IF s[n + 1] \in S THEN {n + 1} ELSE {})
  <2>1. \A i : i \in 1 .. (n + 1) <=> i \in 1 .. n \/ i = n + 1
    OBVIOUS
  <2> QED BY <2>1 DEF Places
<1>2. IsFiniteSet(Places(s, S, n)) /\ n + 1 \notin Places(s, S, n)
  <2>1. IsFiniteSet(1 .. n)
    BY FS_Interval
  <2>2. Places(s, S, n) \in SUBSET (1 .. n) /\ n + 1 \notin 1 .. n
    BY DEF Places
  <2> QED BY <2>1, <2>2, FS_Subset
<1>3. Cardinality(Places(s, S, n)) \in Nat
  BY <1>2, FS_CardinalityType
<1>4. CASE s[n + 1] \in S
  <2>1. Places(s, S, n + 1) = Places(s, S, n) \cup {n + 1}
    BY <1>1, <1>4
  <2> QED BY <1>1, <1>2, <1>3, <1>4, <2>1, FS_AddElement
<1>5. CASE s[n + 1] \notin S
  BY <1>1, <1>3, <1>5
<1> QED BY <1>1, <1>3, <1>4, <1>5

\* t is what a calm cycle has read when it has asked the first n of s, with
\* the sensors S on the bus.
IsReadOf(t, s, S, n) ==
    /\ Len(t) = Cardinality(Places(s, S, n))
    /\ \A k \in 1 .. Len(t) : \E i \in Places(s, S, n) :
            t[k].rom = s[i] /\ Cardinality(Places(s, S, i)) = k

ReadSoFar == phase = "read" /\ calm => IsReadOf(temps, addresses, plugged, cursor - 1)
ReadCursor == phase = "read" => cursor <= Len(addresses) + 1

CompleteInv == TypeOK /\ ScanInPhase /\ ReadCursor /\ ReadSoFar /\ ReportComplete

\* One more sensor is asked.
LEMMA ReadMore ==
    ASSUME NEW t \in Seq(Reading), NEW s, NEW S, NEW n \in Nat, IsReadOf(t, s, S, n)
    PROVE  /\ s[n + 1] \notin S => IsReadOf(t, s, S, n + 1)
           /\ \A r \in Reading :
                s[n + 1] \in S /\ r.rom = s[n + 1] => IsReadOf(Append(t, r), s, S, n + 1)
<1>1. /\ Places(s, S, n + 1) = Places(s, S, n) \cup (IF s[n + 1] \in S THEN {n + 1} ELSE {})
      /\ Cardinality(Places(s, S, n + 1)) =
            Cardinality(Places(s, S, n)) + (IF s[n + 1] \in S THEN 1 ELSE 0)
  BY PlacesGrow
<1>2. Len(t) \in Nat
  BY LenProperties
<1>3. ASSUME s[n + 1] \notin S PROVE IsReadOf(t, s, S, n + 1)
  <2>1. Places(s, S, n + 1) = Places(s, S, n)
    BY <1>1, <1>3
  <2> QED BY <2>1 DEF IsReadOf
<1>4. ASSUME NEW r \in Reading, s[n + 1] \in S, r.rom = s[n + 1]
      PROVE  IsReadOf(Append(t, r), s, S, n + 1)
  <2> DEFINE u == Append(t, r)
  <2>1. /\ Len(u) = Len(t) + 1
        /\ \A k \in 1 .. Len(t) : u[k] = t[k]
        /\ u[Len(t) + 1] = r
    BY AppendProperties
  <2> HIDE DEF u
  <2>2. Len(u) = Cardinality(Places(s, S, n + 1))
    BY <1>1, <1>4, <2>1 DEF IsReadOf
  <2>3. ASSUME NEW k \in 1 .. Len(u)
        PROVE  \E i \in Places(s, S, n + 1) : u[k].rom = s[i] /\ Cardinality(Places(s, S, i)) = k
    <3>1. CASE k \in 1 .. Len(t)
      BY <1>1, <2>1, <3>1 DEF IsReadOf
    <3>2. CASE k = Len(t) + 1
      <4>1. n + 1 \in Places(s, S, n + 1)
        BY <1>1, <1>4
      <4>2. u[k].rom = s[n + 1]
        BY <1>4, <2>1, <3>2
      <4>3. Cardinality(Places(s, S, n + 1)) = k
        BY <2>1, <2>2, <3>2
      <4> QED BY <4>1, <4>2, <4>3
    <3> QED BY <1>2, <2>1, <3>1, <3>2
  <2>4. IsReadOf(u, s, S, n + 1)
    BY <2>2, <2>3 DEF IsReadOf
  <2> QED BY <2>4 DEF u
<1> QED BY <1>3, <1>4

LEMMA CompleteReading ==
    ASSUME CompleteInv, NEW fails \in BOOLEAN, ReadSensor(fails)
    PROVE  ReadSoFar' /\ ReadCursor'
<1> DEFINE r == [rom |-> addresses[cursor], fresh |-> addresses[cursor] \in sampled]
<1>1. /\ phase = "read" /\ cursor <= Len(addresses) /\ cursor' = cursor + 1
      /\ calm' = (calm /\ ~fails) /\ addresses' = addresses /\ plugged' = plugged
      /\ temps' = IF addresses[cursor] \in plugged /\ ~fails THEN Append(temps, r) ELSE temps
  BY DEF ReadSensor, Glitch, searchVars
<1>2. /\ temps \in Seq(Reading) /\ cursor \in Nat /\ cursor - 1 \in Nat
      /\ (cursor - 1) + 1 = cursor /\ cursor' - 1 = cursor /\ Len(addresses) \in Nat
  BY <1>1, LenProperties, RomAssumption DEF RomAssumption, CompleteInv, TypeOK
<1>3. ReadCursor'
  BY <1>1, <1>2 DEF ReadCursor
<1>4. ASSUME calm' PROVE IsReadOf(temps', addresses, plugged, cursor)
  <2>1. calm /\ ~fails
    BY <1>1, <1>4
  <2>2. IsReadOf(temps, addresses, plugged, cursor - 1)
    BY <1>1, <2>1 DEF CompleteInv, ReadSoFar
  <2>3. CASE addresses[cursor] \notin plugged
    BY <1>1, <1>2, <2>2, <2>3, ReadMore
  <2>4. CASE addresses[cursor] \in plugged
    <3>1. r \in Reading /\ r.rom = addresses[cursor]
      BY <2>4, RomTypes DEF Reading, CompleteInv, TypeOK
    <3>2. temps' = Append(temps, r)
      BY <1>1, <2>1, <2>4
    <3> HIDE DEF r
    <3> QED BY <1>2, <2>2, <2>4, <3>1, <3>2, ReadMore
  <2> QED BY <2>3, <2>4
<1> QED BY <1>1, <1>2, <1>3, <1>4 DEF ReadSoFar

LEMMA CompleteReported ==
    ASSUME CompleteInv, Report
    PROVE  ReportComplete'
<1> SUFFICES ASSUME calm PROVE ReportComplete'
  BY DEF Report, ReportComplete
<1>1. /\ phase = "read" /\ cursor > Len(addresses) /\ report' = Buffer(temps)
      /\ addresses' = addresses /\ plugged' = plugged
  BY DEF Report, searchVars, noiseVars
<1>2. /\ temps \in Seq(Reading) /\ Len(temps) \in Nat /\ Len(addresses) \in Nat
      /\ cursor \in Nat
  BY LenProperties, RomAssumption DEF RomAssumption, CompleteInv, TypeOK
<1>3. cursor - 1 = Len(addresses)
  BY <1>1, <1>2 DEF CompleteInv, ReadCursor
<1>4. IsReadOf(temps, addresses, plugged, Len(addresses))
  BY <1>1, <1>3 DEF CompleteInv, ReadSoFar
<1> DEFINE n == IF Len(temps) < BufSize THEN Len(temps) ELSE BufSize
<1>5. n \in 0 .. Len(temps)
  BY <1>2, TimeAssumption DEF TimeAssumption
<1>6. \A i \in 1 .. n : temps[i] \in Reading
  BY <1>2, <1>5, ElementOfSeq
<1>7. /\ Len(SubSeq(temps, 1, n)) = n
      /\ \A i \in 1 .. n : SubSeq(temps, 1, n)[i] = temps[i]
  BY <1>2, <1>5, <1>6, SubSeqProperties
<1>8. report' = SubSeq(temps, 1, n)
  BY <1>1 DEF Buffer
<1> DEFINE there == Cardinality(Places(addresses, plugged, Len(addresses)))
<1>9. Len(temps) = there
  BY <1>4 DEF IsReadOf
<1>10. n = IF there < BufSize THEN there ELSE BufSize
  BY <1>9
<1>11. ASSUME NEW k \in 1 .. n
       PROVE  \E i \in Places(addresses, plugged, Len(addresses)) :
                    /\ report'[k].rom = addresses[i]
                    /\ Cardinality(Places(addresses, plugged, i)) = k
  <2> HIDE DEF n
  <2>1. k \in 1 .. Len(temps) /\ report'[k] = temps[k]
    BY <1>2, <1>5, <1>7, <1>8
  <2> QED BY <1>4, <2>1 DEF IsReadOf
<1> HIDE DEF n, there
<1>12. Len(report') = IF there < BufSize THEN there ELSE BufSize
  BY <1>7, <1>8, <1>10
<1>13. \A k \in 1 .. Len(report') : \E i \in Places(addresses, plugged, Len(addresses)) :
            /\ report'[k].rom = addresses[i]
            /\ Cardinality(Places(addresses, plugged, i)) = k
  BY <1>7, <1>8, <1>11
<1> QED BY <1>1, <1>12, <1>13 DEF ReportComplete, there

LEMMA CompleteLoop ==
    ASSUME CompleteInv, Loop
    PROVE  CompleteInv'
<1>1. TypeOK' /\ ScanInPhase'
  <2>1. CASE Scan
    BY <2>1, LoopTypes DEF Scan, cycleVars, CompleteInv, ScanInPhase
  <2>2. CASE ~Scan /\ phase = "tick" /\ addresses = <<>>
    BY <2>2, LoopTypes, AfterRescan DEF CompleteInv, ScanInPhase
  <2>3. CASE ~Scan /\ ~(phase = "tick" /\ addresses = <<>>)
    BY <2>3, LoopTypes, LoopElsewhere DEF searchVars, CompleteInv, ScanInPhase
  <2> QED BY <2>1, <2>2, <2>3
<1> USE DEF CompleteInv, ReadCursor, ReadSoFar, ReportComplete
<1>2. CASE StartCycle
  BY <1>1, <1>2 DEF StartCycle
<1>3. CASE Scan
  BY <1>1, <1>3 DEF Scan, cycleVars
<1>4. CASE ScanReturns
  BY <1>1, <1>4 DEF ScanReturns, Stop
<1>5. CASE Convert
  BY <1>1, <1>5 DEF Convert
<1>6. CASE \E flip \in BOOLEAN : Converted(flip)
  <2>1. phase' = "read" /\ cursor' = 1 /\ temps' = <<>>
    BY <1>6 DEF Converted
  <2>2. Len(addresses') \in Nat
    BY <1>1, LenProperties DEF TypeOK
  <2>3. Places(addresses', plugged', 0) = {} /\ Len(temps') = 0
    BY <2>1, EmptySeq DEF Places
  <2>4. IsReadOf(temps', addresses', plugged', 0)
    <3>1. Len(temps') = Cardinality(Places(addresses', plugged', 0))
      BY <2>3, FS_EmptySet
    <3>2. \A k \in 1 .. Len(temps') : FALSE
      BY <2>3
    <3> QED BY <3>1, <3>2 DEF IsReadOf
  <2>5. cursor' - 1 = 0
    BY <2>1
  <2>6. ReadSoFar'
    BY <2>4, <2>5
  <2> QED BY <1>1, <2>1, <2>2, <2>6
<1>7. CASE \E flip \in BOOLEAN, late \in 0 .. MaxLate : PollAgain(flip, late)
  BY <1>1, <1>7 DEF PollAgain, Sample
<1>8. CASE \E flip \in BOOLEAN, late \in 0 .. MaxLate : ConversionTimeout(flip, late)
  BY <1>1, <1>8 DEF ConversionTimeout, Stop
<1>9. CASE \E fails \in BOOLEAN : ReadSensor(fails)
  <2>1. phase' = "read"
    BY <1>9 DEF ReadSensor
  <2> QED BY <1>1, <1>9, <2>1, CompleteReading
<1>10. CASE Report
  <2>1. phase' = "tick"
    BY <1>10 DEF Report
  <2> QED BY <1>1, <1>10, <2>1, CompleteReported
<1>11. CASE BusError
  BY <1>1, <1>11 DEF BusError, Stop
<1> QED BY <1>2, <1>3, <1>4, <1>5, <1>6, <1>7, <1>8, <1>9, <1>10, <1>11 DEF Loop

LEMMA CompleteInit == Init => CompleteInv
<1> SUFFICES ASSUME Init PROVE CompleteInv
  OBVIOUS
<1>1. /\ addresses = <<>> /\ report = <<>> /\ phase = "tick" /\ scan = "ok"
  BY DEF Init, ScanInit
<1>2. Len(addresses) = 0 /\ Len(report) = 0
  BY <1>1, EmptySeq
<1>3. Places(addresses, plugged, 0) = {} /\ Cardinality({}) = 0
  BY FS_EmptySet DEF Places
<1>4. ReportComplete
  BY <1>2, <1>3, TimeAssumption DEF TimeAssumption, ReportComplete
<1> QED BY <1>1, <1>4, TypeInit DEF CompleteInv, ScanInPhase, ReadCursor, ReadSoFar

\* ReportComplete for any number of sensors and any buffer.
THEOREM NoneLeftOut == Spec => []ReportComplete
<1>1. CompleteInv /\ [Next]_vars => CompleteInv'
  <2> SUFFICES ASSUME CompleteInv, [Next]_vars PROVE CompleteInv'
    OBVIOUS
  <2>1. CASE Loop
    BY <2>1, CompleteLoop
  <2>2. ASSUME NEW d \in Sensors, Finish(d) PROVE CompleteInv'
    <3>1. TypeOK'
      BY <2>2, SensorTypes DEF CompleteInv
    <3> QED BY <2>2, <3>1 DEF Finish, searchVars, noiseVars, CompleteInv, ScanInPhase, ReadCursor,
                ReadSoFar, ReportComplete
  <2>3. ASSUME NEW d \in Sensors, Unplug(d) \/ Plug(d) PROVE CompleteInv'
    <3>1. TypeOK'
      BY <2>3, SensorTypes DEF CompleteInv
    <3>2. /\ calm' = FALSE /\ phase' = phase /\ scan' = scan /\ cursor' = cursor
          /\ addresses' = addresses
      BY <2>3 DEF Unplug, Plug, Hotplug
    <3> QED BY <3>1, <3>2 DEF CompleteInv, ScanInPhase, ReadCursor, ReadSoFar, ReportComplete
  <2>4. CASE UNCHANGED vars
    BY <2>4 DEF vars, searchVars, noiseVars, cycleVars, CompleteInv, TypeOK, ScanInPhase,
                ReadCursor, ReadSoFar, ReportComplete
  <2> QED BY <2>1, <2>2, <2>3, <2>4 DEF Next
<1>2. CompleteInv => ReportComplete
  BY DEF CompleteInv
<1> QED BY <1>1, <1>2, CompleteInit, PTL DEF Spec

=============================================================================
