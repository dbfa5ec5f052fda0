------------------------------ MODULE RomSearch ------------------------------
(***************************************************************************)
(* The 1-Wire ROM search (src/driver/onewire.rs, Search::next), the scan   *)
(* that repeats it (src/driver/ds18b20.rs, rescan), and the sensors that   *)
(* answer on the bus.                                                      *)
(*                                                                         *)
(* A ROM code is a function from bit numbers to bits, bit 0 the first one  *)
(* on the wire.  The bus is open-drain: a slot reads 1 only when every     *)
(* sensor still in the search leaves it high.  A glitch inverts one        *)
(* sample.  A bit of 64 is one step: its three slots, one after the other. *)
(***************************************************************************)
EXTENDS Integers, Sequences, FiniteSets

CONSTANTS
    RomBits,      \* 64
    CrcBits,      \* 8
    Poly,         \* the bits set in 0x8C
    MaxSensors,   \* Ds18b20Driver::MAX_SENSORS, 16
    MaxGlitches,  \* bound: samples inverted by noise
    MaxHotplugs   \* bound: sensors coming or going

ASSUME RomAssumption ==
    /\ RomBits \in Nat /\ CrcBits \in Nat /\ CrcBits < RomBits
    /\ MaxSensors \in Nat \ {0}
    /\ MaxGlitches \in Nat /\ MaxHotplugs \in Nat

BitNo == 0 .. (RomBits - 1)
DataBits == RomBits - CrcBits
Rom == [BitNo -> BOOLEAN]

\* One bit of crc8: shift right, and fold the polynomial in on a carry.
CrcStep(crc, b) ==
    [i \in 0 .. (CrcBits - 1) |->
        LET shifted == i < CrcBits - 1 /\ crc[i + 1]
            mix == crc[0] # b
        IN  shifted # (mix /\ i \in Poly)]

\* crc8 of the ROM's leading bytes.
crc8(rom) ==
    LET after[n \in 0 .. DataBits] ==
            IF n = 0 THEN [i \in 0 .. (CrcBits - 1) |-> FALSE]
                     ELSE CrcStep(after[n - 1], rom[n - 1])
    IN  after[DataBits]

CrcOk(rom) == \A i \in 0 .. (CrcBits - 1) : crc8(rom)[i] = rom[DataBits + i]

\* ROM codes a sensor can have.
Sensors == {rom \in Rom : CrcOk(rom)}

\* A CRC tells a ROM code from the same with one bit inverted.
ASSUME CrcAssumption ==
    \A rom \in Sensors, i \in BitNo : [rom EXCEPT ![i] = ~rom[i]] \notin Sensors

\* Option<usize>: None is below every Some.
None == -1

VARIABLES
    scan,             \* where rescan stands, or how the last one returned
    addresses,        \* Ds18b20Driver::addresses
    address,          \* Search::address
    lastDiscrepancy,  \* Search::last_discrepancy
    complete,         \* Search::complete
    lastZero,         \* last_zero, a local of next
    bit,              \* id_bit_number
    active,           \* external: sensors that have not left this search
    plugged,          \* external: sensors on the bus
    glitches,         \* bound: samples inverted so far
    hotplugs,         \* bound: arrivals and departures so far
    quiet             \* history: neither happened during the last scan

searchVars == <<scan, addresses, address, lastDiscrepancy, complete, lastZero, bit, active>>
noiseVars  == <<plugged, glitches, hotplugs, quiet>>

ScanInit ==
    /\ scan = "ok" /\ addresses = <<>>
    /\ address = [i \in BitNo |-> FALSE]
    /\ lastDiscrepancy = None /\ complete = FALSE
    /\ lastZero = None /\ bit = 0 /\ active = {}
    /\ glitches = 0 /\ hotplugs = 0 /\ quiet = TRUE

\* n samples of a step are inverted, and of a step of the scan.
Glitch(n) ==
    /\ glitches + n <= MaxGlitches
    /\ glitches' = glitches + n
    /\ UNCHANGED <<plugged, hotplugs>>

ScanGlitch(n) == Glitch(n) /\ quiet' = (quiet /\ n = 0)

Flips(b) == IF b THEN 1 ELSE 0

-----------------------------------------------------------------------------
\* rescan: forget the cached addresses and start a search.
Rescan ==
    /\ addresses' = <<>>
    /\ scan' = "next"
    /\ address' = [i \in BitNo |-> FALSE]
    /\ lastDiscrepancy' = None /\ complete' = FALSE
    /\ quiet' = TRUE
    /\ UNCHANGED <<lastZero, bit, active, plugged, glitches, hotplugs>>

\* next returns SearchComplete, and rescan Ok.
SearchComplete ==
    /\ scan = "next" /\ complete
    /\ scan' = "ok"
    /\ UNCHANGED <<addresses, address, lastDiscrepancy, complete, lastZero, bit, active,
                   noiseVars>>

\* next resets the bus and sends the search command; with no presence pulse
\* it returns NoDevicesPresent, and rescan Ok.
StartPass(flip) ==
    /\ scan = "next" /\ ~complete
    /\ ScanGlitch(Flips(flip))
    /\ scan' = IF (plugged # {}) # flip THEN "bits" ELSE "ok"
    /\ lastZero' = None /\ bit' = 0
    /\ active' = plugged
    /\ UNCHANGED <<addresses, address, lastDiscrepancy, complete>>

\* The sensors send the bit and then its complement.
BitSlot == \A d \in active : d[bit]
ComplementSlot == \A d \in active : ~d[bit]

\* Mutant: the last discrepancy takes its old direction again.
DirectionUnturned(idBit, complement) ==
    IF idBit # complement THEN idBit ELSE bit <= lastDiscrepancy /\ address[bit]

\* search_direction, for the two bits read.
Direction(idBit, complement) ==
    IF idBit # complement THEN idBit
    ELSE \/ bit = lastDiscrepancy
         \/ bit < lastDiscrepancy /\ address[bit]

\* Mutant: no discrepancy yet is taken for one at bit 0.
LastZeroFromNone(idBit, complement) ==
    IF /\ ~idBit /\ ~complement
       /\ bit > (IF lastDiscrepancy = None THEN 0 ELSE lastDiscrepancy)
    THEN bit ELSE lastZero

\* last_zero, for the two bits read.
LastZero(idBit, complement) ==
    IF ~idBit /\ ~complement /\ bit > lastDiscrepancy THEN bit ELSE lastZero

\* Read two bits, choose a direction and send it; sensors that differ leave
\* the search.
SearchBit(flipBit, flipComplement) ==
    LET idBit == BitSlot # flipBit
        complement == ComplementSlot # flipComplement
        direction == Direction(idBit, complement)
    IN  /\ scan = "bits" /\ bit < RomBits
        /\ ~(idBit /\ complement)
        /\ ScanGlitch(Flips(flipBit) + Flips(flipComplement))
        /\ lastZero' = LastZero(idBit, complement)
        /\ address' = [address EXCEPT ![bit] = direction]
        /\ active' = {d \in active : d[bit] = direction}
        /\ bit' = bit + 1
        /\ UNCHANGED <<scan, addresses, lastDiscrepancy, complete>>

\* Nobody drove either slot: next returns NoDevicesPresent, and rescan Ok.
NobodyAnswers(flipBit, flipComplement) ==
    /\ scan = "bits" /\ bit < RomBits
    /\ BitSlot # flipBit /\ ComplementSlot # flipComplement
    /\ ScanGlitch(Flips(flipBit) + Flips(flipComplement))
    /\ scan' = "ok"
    /\ UNCHANGED <<addresses, address, lastDiscrepancy, complete, lastZero, bit, active>>

\* Mutant: the CRC is not looked at.
EnumeratedUnchecked ==
    /\ addresses' = IF Len(addresses) < MaxSensors THEN Append(addresses, address) ELSE addresses
    /\ scan' = IF Len(addresses) = MaxSensors THEN "TooManySensorsConnected" ELSE "next"

\* Mutant: the buffer takes one more.
EnumeratedOverfull ==
    /\ addresses' = IF CrcOk(address) THEN Append(addresses, address) ELSE addresses
    /\ scan' = IF CrcOk(address) /\ Len(addresses) > MaxSensors
               THEN "TooManySensorsConnected" ELSE "next"

\* The pass is over: rescan keeps the address, skips a corrupt one, or gives
\* up when its buffer is full.
Enumerated ==
    /\ IF CrcOk(address) /\ Len(addresses) < MaxSensors
       THEN addresses' = Append(addresses, address)
       ELSE UNCHANGED addresses
    /\ scan' = IF CrcOk(address) /\ Len(addresses) = MaxSensors
               THEN "TooManySensorsConnected" ELSE "next"

EndPass ==
    /\ scan = "bits" /\ bit = RomBits
    /\ lastDiscrepancy' = lastZero
    /\ complete' = (lastZero = None)
    /\ Enumerated
    /\ UNCHANGED <<address, lastZero, bit, active, noiseVars>>

\* A transaction fails: rescan returns the bus error.
ScanBusError ==
    /\ \/ scan = "next" /\ ~complete
       \/ scan = "bits" /\ bit < RomBits
    /\ scan' = "OneWireError"
    /\ UNCHANGED <<addresses, address, lastDiscrepancy, complete, lastZero, bit, active,
                   noiseVars>>

ScanStep ==
    \/ SearchComplete
    \/ \E flip \in BOOLEAN : StartPass(flip)
    \/ \E f, g \in BOOLEAN : SearchBit(f, g) \/ NobodyAnswers(f, g)
    \/ EndPass
    \/ ScanBusError

=============================================================================
