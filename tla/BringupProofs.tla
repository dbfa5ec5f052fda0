------------------------------ MODULE BringupProofs ------------------------------
(* The bring-up of the CoreS3's chips, of the panel and of the card's pins, for   *)
(* any number of tries and any battery voltages.                                  *)
EXTENDS Bringup, TLAPS

--------------------------------------------------------------------------------
(* The invariants                                                               *)

Stages == [bringup |-> {"init", "lcd", "touch", "backlight", "adc", "done", "absent"},
           power |-> Guard \cup {"idle", "refused", "bus_5v", "done", "absent"}]

ChipTypes ==
  /\ board \in {"cores3", "fire27"} /\ app \in Apps
  /\ DOMAIN routine = Tasks /\ \A t \in Tasks : routine[t] \in Stages[t]
  /\ op \in [Tasks -> Nat]
  /\ \A t \in Tasks : op[t] # 1 => Running(t) /\ op[t] \in 1..Len(Ops[routine[t]])
  /\ DOMAIN regs = Registers /\ DOMAIN val = Tasks
  /\ DOMAIN lost = Registers
  /\ failed \in [Tasks -> BOOLEAN] /\ inOrder \in BOOLEAN
  /\ vbus \in BOOLEAN /\ high \in Nat /\ spared \in BOOLEAN

\* The application got through the guard.
PastGuard == routine["power"] \in {"bus_5v", "done"}

\* Nobody gets through, or has read that USB is absent, without a reason.
GuardInv == (~vbus => spared) /\ (PastGuard => spared)

\* The direction of the pins that may not be driven, in the register and in what
\* was read of it.
Undriven(config) ==
  /\ P0 \ {"touch_rst", "bus_out_en"} \subseteq config
  /\ ~PastGuard => "bus_out_en" \in config

ConfigInv ==
  /\ Undriven(regs.config_p0)
  /\ \A t \in Tasks : Running(t) /\ Current(t).reg = "config_p0" /\ val[t] # Unread => Undriven(val[t])
  /\ ~PastGuard => "boost_en" \in regs.config_p1

\* The application's routine got past its nth access.
Passed(n) ==
  \/ routine["power"] = "done" /\ ~failed["power"]
  \/ routine["power"] = "bus_5v" /\ op["power"] > n

InStage(stages) == routine["bringup"] \in stages /\ ~failed["bringup"]

\* What an access has done stays done, unless it is put back.
KeptInv ==
  /\ inOrder => routine["bringup"] = "done"
  /\ Passed(4) => KeptHigh("gcr", "p0_push_pull")
  /\ Passed(5) => KeptHigh("ledmode_p0", "bus_out_en")
  /\ Passed(6) => KeptHigh("output_p0", "bus_out_en")
  /\ Passed(7) => KeptLow("config_p0", "bus_out_en")
  /\ inOrder /\ Passed(1) => KeptHigh("ledmode_p1", "boost_en")
  /\ inOrder /\ Passed(2) => KeptHigh("output_p1", "boost_en")
  /\ inOrder /\ Passed(3) => KeptLow("config_p1", "boost_en")
  /\ InStage({"backlight", "adc", "done"}) => KeptHigh("output_p0", "touch_rst")
  /\ InStage({"adc", "done"}) => "dldo1" \in regs.ldo_en

AfterInit == {"lcd", "touch", "backlight", "adc", "done"}
AfterPulse == {"touch", "backlight", "adc", "done"}

\* The reset line of the panel, and what it has done to it. Within the pulse a
\* write that puts the line back only moves the pulse's end.
PanelInv ==
  "lcd_rst" \notin lost.config_p1 =>
    /\ InStage(AfterInit) => "lcd_rst" \notin regs.config_p1
    /\ InStage({"lcd"}) /\ op["bringup"] = 2 =>
         panel # "unknown" /\ ("lcd_rst" \notin regs.output_p1 => panel = "held")
    /\ InStage(AfterPulse) =>
         /\ panel # "unknown" /\ ("lcd_rst" \in regs.output_p1 => panel # "held")
         /\ KeptHigh("output_p1", "lcd_rst")

\* A display that was waited for finds the bring-up done, and stays ready.
DisplayInv ==
  /\ TypeOK
  /\ board = "fire27" => routine["bringup"] = "absent"
  /\ display # "waiting" /\ ~hurried => board = "fire27" \/ routine["bringup"] = "done"
  /\ display \in {"finish", "up"} /\ (board = "cores3" => ~hurried /\ ~failed["bringup"] /\ ~LcdRstLost)
       => panel = "ready"
  /\ "backlight" \in pins => board = "fire27" /\ display = "up"
  /\ "gpio35" \in pins => board = "cores3"
  /\ display = "up" /\ WithCard => "gpio35" \notin pins

--------------------------------------------------------------------------------
(* The accesses of each routine.                                                *)

LEMMA InitTable ==
  /\ Len(Ops["init"]) = 6
  /\ Ops["init"][1] = Set("output_p0", {"touch_rst"})
  /\ Ops["init"][2] = Set("ledmode_p0", {"touch_rst"})
  /\ Ops["init"][3] = Clear("config_p0", {"touch_rst"})
  /\ Ops["init"][4] = WriteAll("ledmode_p1", P1)
  /\ Ops["init"][5] = WriteAll("output_p1", {"cam_rst", "lcd_rst"})
  /\ Ops["init"][6] = WriteAll("config_p1", P1 \ {"cam_rst", "lcd_rst"})
BY DEF Ops, InitOps

LEMMA PulseTable ==
  /\ Len(Ops["lcd"]) = 2
  /\ Ops["lcd"][1] = WriteAll("output_p1", {"cam_rst"})
  /\ Ops["lcd"][2] = WriteAll("output_p1", {"cam_rst", "lcd_rst"})
  /\ Len(Ops["touch"]) = 2
  /\ Ops["touch"][1] = Clear("output_p0", {"touch_rst"})
  /\ Ops["touch"][2] = Set("output_p0", {"touch_rst"})
BY DEF Ops, LcdRstPulse, TouchRstPulse

LEMMA RailTable ==
  /\ Len(Ops["backlight"]) = 2
  /\ Ops["backlight"][1] = WriteAll("dldo1_vol", {"3300mV"})
  /\ Ops["backlight"][2] = Set("ldo_en", {"dldo1"})
  /\ Len(Ops["adc"]) = 1
  /\ Ops["adc"][1] = Set("adc_en", {"vbat"})
BY DEF Ops, SetDldo1, EnableBatteryAdc

LEMMA PowerTable ==
  /\ Len(Ops["bus_5v"]) = 7
  /\ Ops["bus_5v"][1] = Set("ledmode_p1", {"boost_en"})
  /\ Ops["bus_5v"][2] = Set("output_p1", {"boost_en"})
  /\ Ops["bus_5v"][3] = Clear("config_p1", {"boost_en"})
  /\ Ops["bus_5v"][4] = Set("gcr", {"p0_push_pull"})
  /\ Ops["bus_5v"][5] = Set("ledmode_p0", {"bus_out_en"})
  /\ Ops["bus_5v"][6] = Set("output_p0", {"bus_out_en"})
  /\ Ops["bus_5v"][7] = Clear("config_p0", {"bus_out_en"})
BY DEF Ops, EnableBus5v

LEMMA Lengths ==
  /\ Len(Ops["init"]) = 6 /\ Len(Ops["lcd"]) = 2 /\ Len(Ops["touch"]) = 2
  /\ Len(Ops["backlight"]) = 2 /\ Len(Ops["adc"]) = 1 /\ Len(Ops["bus_5v"]) = 7
BY InitTable, PulseTable, RailTable, PowerTable

LEMMA Routines == DOMAIN Ops = {"init", "lcd", "touch", "backlight", "adc", "bus_5v"}
BY DEF Ops

LEMMA Following ==
  /\ Then["init"] = "lcd" /\ Then["lcd"] = "touch" /\ Then["touch"] = "backlight"
  /\ Then["backlight"] \in {"adc", "done"} /\ Then["adc"] = "done" /\ Then["bus_5v"] = "done"
BY DEF Then

LEMMA Kinds ==
  ASSUME NEW reg, NEW mask
  PROVE  /\ Set(reg, mask).kind = "set" /\ Set(reg, mask).reg = reg /\ Set(reg, mask).mask = mask
         /\ Clear(reg, mask).kind = "clear" /\ Clear(reg, mask).reg = reg /\ Clear(reg, mask).mask = mask
         /\ WriteAll(reg, mask).kind = "write" /\ WriteAll(reg, mask).reg = reg /\ WriteAll(reg, mask).mask = mask
BY DEF Set, Clear, WriteAll

RegNames == {"output_p0", "output_p1", "config_p0", "config_p1", "ledmode_p0", "ledmode_p1",
             "gcr", "dldo1_vol", "ldo_en", "adc_en"}

LEMMA Names == Registers = RegNames
BY DEF Registers, Bits, RegNames

\* The pins and bits that the invariants follow.
LEMMA Pins ==
  /\ {"touch_rst", "bus_out_en"} \subseteq Bits["output_p0"]
  /\ "bus_out_en" \in Bits["ledmode_p0"] /\ "bus_out_en" \in Bits["config_p0"]
  /\ {"boost_en", "lcd_rst"} \subseteq Bits["output_p1"]
  /\ {"boost_en", "lcd_rst"} \subseteq Bits["config_p1"]
  /\ "boost_en" \in Bits["ledmode_p1"] /\ "p0_push_pull" \in Bits["gcr"]
  /\ "dldo1" \in Bits["ldo_en"]
BY DEF Bits, P0, P1

\* A step leaves a bit as it was, or puts it back and says so.
Stays(r, b) ==
  /\ b \in lost[r] => b \in lost'[r]
  /\ b \in lost'[r] \/ (b \in regs'[r]) = (b \in regs[r])

LEMMA StaysKept ==
  ASSUME NEW r, NEW b, Stays(r, b)
  PROVE  /\ KeptHigh(r, b) => KeptHigh(r, b)'
         /\ KeptLow(r, b) => KeptLow(r, b)'
BY DEF Stays, KeptHigh, KeptLow

LEMMA NothingLands ==
  ASSUME UNCHANGED <<regs, lost>>, NEW r, NEW b
  PROVE  Stays(r, b)
BY DEF Stays

\* What set_bits and clear_bits do to the bits they are about, and to the rest.
Does(reg, mask, up) ==
  \A r \in RegNames :
    /\ r # reg => regs'[r] = regs[r]
    /\ \A b \in Bits[r] : IF r = reg /\ b \in mask THEN (b \in regs'[r]) = up ELSE Stays(r, b)

LEMMA ModifyLands ==
  ASSUME ChipTypes, NEW t \in Tasks, Lands(t), NEW reg \in RegNames, NEW mask, NEW up \in BOOLEAN,
         Current(t) = IF up THEN Set(reg, mask) ELSE Clear(reg, mask)
  PROVE  Does(reg, mask, up)
<1>1. PICK c : c = Current(t)
  OBVIOUS
<1>2. c.kind = (IF up THEN "set" ELSE "clear") /\ c.reg = reg /\ c.mask = mask
  BY <1>1, Kinds
<1>3. /\ regs' = [regs EXCEPT ![reg] = IF up THEN val[t] \cup mask ELSE val[t] \ mask]
      /\ lost' = [lost EXCEPT ![reg] = (lost[reg] \ mask) \cup PutBack(t)]
  BY <1>1, <1>2 DEF Lands, Modified
<1>4. PutBack(t) = {b \in Bits[reg] \ mask : (b \in val[t]) # (b \in regs[reg])}
  BY <1>1, <1>2 DEF PutBack
<1>5. DOMAIN regs = RegNames /\ DOMAIN lost = RegNames
  BY Names DEF ChipTypes
<1>6. ASSUME NEW r \in RegNames, NEW b \in Bits[r]
      PROVE  IF r = reg /\ b \in mask THEN (b \in regs'[r]) = up ELSE Stays(r, b)
  <2>1. CASE r # reg
    BY <1>3, <1>5, <2>1 DEF Stays
  <2>2. CASE r = reg /\ b \in mask
    BY <1>3, <1>5, <2>2
  <2>3. CASE r = reg /\ b \notin mask
    <3>1. (b \in regs'[r]) = (b \in val[t])
      BY <1>3, <1>5, <2>3
    <3>2. (b \in lost'[r]) = (b \in lost[r] \/ (b \in val[t]) # (b \in regs[r]))
      BY <1>3, <1>4, <1>5, <2>3
    <3> QED BY <2>3, <3>1, <3>2 DEF Stays
  <2> QED BY <2>1, <2>2, <2>3
<1> QED BY <1>3, <1>5, <1>6 DEF Does

\* What the write of a whole register does.
LEMMA WholeLands ==
  ASSUME ChipTypes, NEW t \in Tasks, Lands(t), NEW reg \in RegNames, NEW mask, Current(t) = WriteAll(reg, mask)
  PROVE  /\ regs'[reg] = mask /\ lost'[reg] = {}
         /\ \A r \in RegNames \ {reg} : regs'[r] = regs[r] /\ \A b : Stays(r, b)
<1>1. PICK c : c = Current(t)
  OBVIOUS
<1>2. c.kind = "write" /\ c.reg = reg /\ c.mask = mask
  BY <1>1, Kinds
<1>3. regs' = [regs EXCEPT ![reg] = mask] /\ lost' = [lost EXCEPT ![reg] = {}]
  BY <1>1, <1>2 DEF Lands, Modified
<1>4. DOMAIN regs = RegNames /\ DOMAIN lost = RegNames
  BY Names DEF ChipTypes
<1> QED BY <1>3, <1>4 DEF Stays

LEMMA OpInRange ==
  ASSUME ChipTypes, NEW t \in Tasks, Running(t)
  PROVE  op[t] \in 1..Len(Ops[routine[t]])
<1>1. routine[t] \in {"init", "lcd", "touch", "backlight", "adc", "bus_5v"}
  BY Routines DEF Running
<1>2. \A r \in {"init", "lcd", "touch", "backlight", "adc", "bus_5v"} : 1 \in 1..Len(Ops[r])
  <2> SUFFICES ASSUME NEW r \in {"init", "lcd", "touch", "backlight", "adc", "bus_5v"} PROVE 1 \in 1..Len(Ops[r])
    OBVIOUS
  <2>1. PICK n : n = Len(Ops[r])
    OBVIOUS
  <2>2. r = "init" => n = 6
    BY <2>1, Lengths
  <2>3. r \in {"lcd", "touch", "backlight"} => n = 2
    BY <2>1, Lengths
  <2>4. r = "adc" => n = 1
    BY <2>1, Lengths
  <2>5. r = "bus_5v" => n = 7
    BY <2>1, Lengths
  <2>6. n \in {1, 2, 6, 7}
    BY <2>2, <2>3, <2>4, <2>5
  <2>7. 1 \in 1..n
    BY <2>6
  <2> QED BY <2>1, <2>7
<1> QED BY <1>1, <1>2 DEF ChipTypes

\* The next access of the routine, or the next routine.
LEMMA Onward ==
  ASSUME ChipTypes, NEW t \in Tasks, WriteReg(t)
  PROVE  \/ /\ op[t] < Len(Ops[routine[t]]) /\ UNCHANGED routine
            /\ op' = [op EXCEPT ![t] = op[t] + 1]
         \/ /\ op[t] = Len(Ops[routine[t]])
            /\ routine' = [routine EXCEPT ![t] = Then[routine[t]]]
            /\ op' = [op EXCEPT ![t] = 1]
<1>1. op[t] \in 1..Len(Ops[routine[t]])
  BY OpInRange DEF WriteReg
<1> QED BY <1>1 DEF WriteReg, Proceed

LEMMA PowerRuns ==
  ASSUME ChipTypes, Running("power")
  PROVE  routine["power"] = "bus_5v" /\ op["power"] \in 1..7
<1>1. routine["power"] = "bus_5v"
  BY Routines DEF ChipTypes, Running, Stages, Guard, Tasks
<1> QED BY <1>1, Lengths, OpInRange DEF Tasks

LEMMA BringupRuns ==
  ASSUME ChipTypes, Running("bringup")
  PROVE  \/ routine["bringup"] = "init" /\ op["bringup"] \in 1..6
         \/ routine["bringup"] \in {"lcd", "touch", "backlight"} /\ op["bringup"] \in 1..2
         \/ routine["bringup"] = "adc" /\ op["bringup"] = 1
<1>1. routine["bringup"] \in {"init", "lcd", "touch", "backlight", "adc"}
  BY Routines DEF ChipTypes, Running, Stages, Tasks
<1>2. PICK n : n = Len(Ops[routine["bringup"]]) /\ op["bringup"] \in 1..n
  BY OpInRange DEF Tasks
<1>3. CASE routine["bringup"] = "init"
  <2>1. n = 6
    BY <1>2, <1>3, Lengths
  <2> QED BY <1>2, <1>3, <2>1
<1>4. CASE routine["bringup"] \in {"lcd", "touch", "backlight"}
  <2>1. n = 2
    BY <1>2, <1>4, Lengths
  <2> QED BY <1>2, <1>4, <2>1
<1>5. CASE routine["bringup"] = "adc"
  <2>1. n = 1
    BY <1>2, <1>5, Lengths
  <2>2. op["bringup"] = 1
    BY <1>2, <2>1
  <2> QED BY <1>5, <2>2
<1> QED BY <1>1, <1>3, <1>4, <1>5

\* The bring-up's next access, or its next routine.
LEMMA BringupOnward ==
  ASSUME ChipTypes, WriteReg("bringup"), NEW r, NEW k, routine["bringup"] = r, op["bringup"] = k
  PROVE  \/ routine'["bringup"] = r /\ op'["bringup"] = k + 1
         \/ /\ op'["bringup"] = 1
            /\ \/ r = "init" /\ k = 6 /\ routine'["bringup"] = "lcd"
               \/ r = "lcd" /\ k = 2 /\ routine'["bringup"] = "touch"
               \/ r = "touch" /\ k = 2 /\ routine'["bringup"] = "backlight"
               \/ r = "backlight" /\ k = 2 /\ routine'["bringup"] \in {"adc", "done"}
               \/ r = "adc" /\ k = 1 /\ routine'["bringup"] = "done"
<1>1. DOMAIN routine = Tasks /\ op \in [Tasks -> Nat] /\ "bringup" \in Tasks
  BY DEF ChipTypes, Tasks
<1>2. r \in {"init", "lcd", "touch", "backlight", "adc"}
  BY BringupRuns DEF WriteReg
<1>3. PICK n : n = Len(Ops[r])
  OBVIOUS
<1>4. \/ op'["bringup"] = k + 1 /\ routine'["bringup"] = r
      \/ k = n /\ routine'["bringup"] = Then[r] /\ op'["bringup"] = 1
  BY <1>1, <1>3, Onward
<1>5. /\ r = "init" => n = 6 /\ Then[r] = "lcd"
      /\ r = "lcd" => n = 2 /\ Then[r] = "touch"
      /\ r = "touch" => n = 2 /\ Then[r] = "backlight"
      /\ r = "backlight" => n = 2 /\ Then[r] \in {"adc", "done"}
      /\ r = "adc" => n = 1 /\ Then[r] = "done"
  BY <1>3, Lengths, Following
<1> QED BY <1>2, <1>4, <1>5

\* The same, of the bits that the invariants follow.
Follows(reg, mask, up) ==
  /\ IF reg = "gcr" /\ "p0_push_pull" \in mask THEN ("p0_push_pull" \in regs'.gcr) = up ELSE Stays("gcr", "p0_push_pull")
  /\ IF reg = "ledmode_p0" /\ "bus_out_en" \in mask THEN ("bus_out_en" \in regs'.ledmode_p0) = up ELSE Stays("ledmode_p0", "bus_out_en")
  /\ IF reg = "output_p0" /\ "bus_out_en" \in mask THEN ("bus_out_en" \in regs'.output_p0) = up ELSE Stays("output_p0", "bus_out_en")
  /\ IF reg = "config_p0" /\ "bus_out_en" \in mask THEN ("bus_out_en" \in regs'.config_p0) = up ELSE Stays("config_p0", "bus_out_en")
  /\ IF reg = "ledmode_p1" /\ "boost_en" \in mask THEN ("boost_en" \in regs'.ledmode_p1) = up ELSE Stays("ledmode_p1", "boost_en")
  /\ IF reg = "output_p1" /\ "boost_en" \in mask THEN ("boost_en" \in regs'.output_p1) = up ELSE Stays("output_p1", "boost_en")
  /\ IF reg = "config_p1" /\ "boost_en" \in mask THEN ("boost_en" \in regs'.config_p1) = up ELSE Stays("config_p1", "boost_en")
  /\ IF reg = "output_p0" /\ "touch_rst" \in mask THEN ("touch_rst" \in regs'.output_p0) = up ELSE Stays("output_p0", "touch_rst")
  /\ IF reg = "output_p1" /\ "lcd_rst" \in mask THEN ("lcd_rst" \in regs'.output_p1) = up ELSE Stays("output_p1", "lcd_rst")
  /\ IF reg = "config_p1" /\ "lcd_rst" \in mask THEN ("lcd_rst" \in regs'.config_p1) = up ELSE Stays("config_p1", "lcd_rst")
  /\ reg # "ldo_en" => regs'.ldo_en = regs.ldo_en
  /\ reg = "ldo_en" /\ "dldo1" \in mask => ("dldo1" \in regs'.ldo_en) = up

LEMMA DoesFollows ==
  ASSUME NEW reg \in RegNames, NEW mask, NEW up \in BOOLEAN, Does(reg, mask, up)
  PROVE  Follows(reg, mask, up)
BY Pins DEF Does, RegNames, Follows

\* What enable_bus_5v does to each bit.
LEMMA PowerLands ==
  ASSUME ChipTypes, Running("power"), Lands("power")
  PROVE  LET k == op["power"]
         IN  /\ routine["power"] = "bus_5v" /\ k \in 1..7
             /\ IF k = 1 THEN "boost_en" \in regs'.ledmode_p1 ELSE Stays("ledmode_p1", "boost_en")
             /\ IF k = 2 THEN "boost_en" \in regs'.output_p1 ELSE Stays("output_p1", "boost_en")
             /\ IF k = 3 THEN "boost_en" \notin regs'.config_p1 ELSE Stays("config_p1", "boost_en")
             /\ IF k = 4 THEN "p0_push_pull" \in regs'.gcr ELSE Stays("gcr", "p0_push_pull")
             /\ IF k = 5 THEN "bus_out_en" \in regs'.ledmode_p0 ELSE Stays("ledmode_p0", "bus_out_en")
             /\ IF k = 6 THEN "bus_out_en" \in regs'.output_p0 ELSE Stays("output_p0", "bus_out_en")
             /\ IF k = 7 THEN "bus_out_en" \notin regs'.config_p0 ELSE Stays("config_p0", "bus_out_en")
             /\ Stays("output_p0", "touch_rst") /\ regs'.ldo_en = regs.ldo_en
             /\ Stays("output_p1", "lcd_rst") /\ Stays("config_p1", "lcd_rst")
<1>1. "power" \in Tasks
  BY DEF Tasks
<1>2. PICK k \in 1..7 : routine["power"] = "bus_5v" /\ op["power"] = k
  BY PowerRuns
<1>3. Current("power") = Ops["bus_5v"][k]
  BY <1>2 DEF Current
<1>4. CASE k = 1
  <2>1. Current("power") = Set("ledmode_p1", {"boost_en"})
    BY <1>3, <1>4, PowerTable
  <2>2. "ledmode_p1" \in RegNames
    BY DEF RegNames
  <2>3. Does("ledmode_p1", {"boost_en"}, TRUE)
    BY <1>1, <2>1, <2>2, ModifyLands
  <2>4. Follows("ledmode_p1", {"boost_en"}, TRUE)
    BY <2>2, <2>3, DoesFollows
  <2> QED BY <1>2, <1>4, <2>4 DEF Follows
<1>5. CASE k = 2
  <2>1. Current("power") = Set("output_p1", {"boost_en"})
    BY <1>3, <1>5, PowerTable
  <2>2. "output_p1" \in RegNames
    BY DEF RegNames
  <2>3. Does("output_p1", {"boost_en"}, TRUE)
    BY <1>1, <2>1, <2>2, ModifyLands
  <2>4. Follows("output_p1", {"boost_en"}, TRUE)
    BY <2>2, <2>3, DoesFollows
  <2> QED BY <1>2, <1>5, <2>4 DEF Follows
<1>6. CASE k = 3
  <2>1. Current("power") = Clear("config_p1", {"boost_en"})
    BY <1>3, <1>6, PowerTable
  <2>2. "config_p1" \in RegNames
    BY DEF RegNames
  <2>3. Does("config_p1", {"boost_en"}, FALSE)
    BY <1>1, <2>1, <2>2, ModifyLands
  <2>4. Follows("config_p1", {"boost_en"}, FALSE)
    BY <2>2, <2>3, DoesFollows
  <2> QED BY <1>2, <1>6, <2>4 DEF Follows
<1>7. CASE k = 4
  <2>1. Current("power") = Set("gcr", {"p0_push_pull"})
    BY <1>3, <1>7, PowerTable
  <2>2. "gcr" \in RegNames
    BY DEF RegNames
  <2>3. Does("gcr", {"p0_push_pull"}, TRUE)
    BY <1>1, <2>1, <2>2, ModifyLands
  <2>4. Follows("gcr", {"p0_push_pull"}, TRUE)
    BY <2>2, <2>3, DoesFollows
  <2> QED BY <1>2, <1>7, <2>4 DEF Follows
<1>8. CASE k = 5
  <2>1. Current("power") = Set("ledmode_p0", {"bus_out_en"})
    BY <1>3, <1>8, PowerTable
  <2>2. "ledmode_p0" \in RegNames
    BY DEF RegNames
  <2>3. Does("ledmode_p0", {"bus_out_en"}, TRUE)
    BY <1>1, <2>1, <2>2, ModifyLands
  <2>4. Follows("ledmode_p0", {"bus_out_en"}, TRUE)
    BY <2>2, <2>3, DoesFollows
  <2> QED BY <1>2, <1>8, <2>4 DEF Follows
<1>9. CASE k = 6
  <2>1. Current("power") = Set("output_p0", {"bus_out_en"})
    BY <1>3, <1>9, PowerTable
  <2>2. "output_p0" \in RegNames
    BY DEF RegNames
  <2>3. Does("output_p0", {"bus_out_en"}, TRUE)
    BY <1>1, <2>1, <2>2, ModifyLands
  <2>4. Follows("output_p0", {"bus_out_en"}, TRUE)
    BY <2>2, <2>3, DoesFollows
  <2> QED BY <1>2, <1>9, <2>4 DEF Follows
<1>10. CASE k = 7
  <2>1. Current("power") = Clear("config_p0", {"bus_out_en"})
    BY <1>3, <1>10, PowerTable
  <2>2. "config_p0" \in RegNames
    BY DEF RegNames
  <2>3. Does("config_p0", {"bus_out_en"}, FALSE)
    BY <1>1, <2>1, <2>2, ModifyLands
  <2>4. Follows("config_p0", {"bus_out_en"}, FALSE)
    BY <2>2, <2>3, DoesFollows
  <2> QED BY <1>2, <1>10, <2>4 DEF Follows
<1> QED BY <1>4, <1>5, <1>6, <1>7, <1>8, <1>9, <1>10

\* What the bring-up does to each bit.
LEMMA BringupLands ==
  ASSUME ChipTypes, Running("bringup"), Lands("bringup")
  PROVE  LET at(r, k) == routine["bringup"] = r /\ op["bringup"] = k
         IN  /\ Stays("gcr", "p0_push_pull") /\ Stays("ledmode_p0", "bus_out_en")
             /\ Stays("output_p0", "bus_out_en") /\ Stays("config_p0", "bus_out_en")
             /\ IF at("init", 1) \/ at("touch", 2) THEN "touch_rst" \in regs'.output_p0
                ELSE at("touch", 1) \/ Stays("output_p0", "touch_rst")
             /\ IF at("backlight", 2) THEN "dldo1" \in regs'.ldo_en ELSE regs'.ldo_en = regs.ldo_en
             /\ IF at("init", 5) \/ at("lcd", 2) THEN regs'.output_p1 = {"cam_rst", "lcd_rst"} /\ lost'.output_p1 = {}
                ELSE IF at("lcd", 1) THEN regs'.output_p1 = {"cam_rst"} /\ lost'.output_p1 = {}
                ELSE Stays("output_p1", "lcd_rst")
             /\ IF at("init", 6) THEN regs'.config_p1 = P1 \ {"cam_rst", "lcd_rst"} /\ lost'.config_p1 = {}
                ELSE Stays("config_p1", "lcd_rst")
<1>1. "bringup" \in Tasks
  BY DEF Tasks
<1>2. PICK r, k : routine["bringup"] = r /\ op["bringup"] = k
  OBVIOUS
<1>3. \/ r = "init" /\ k \in 1..6
      \/ r \in {"lcd", "touch", "backlight"} /\ k \in 1..2
      \/ r = "adc" /\ k = 1
  BY <1>2, BringupRuns
<1>4. Current("bringup") = Ops[r][k]
  BY <1>2 DEF Current
<1>5. CASE r = "init" /\ k = 1
  <2>1. Current("bringup") = Set("output_p0", {"touch_rst"})
    BY <1>4, <1>5, InitTable
  <2>2. "output_p0" \in RegNames
    BY DEF RegNames
  <2>3. Does("output_p0", {"touch_rst"}, TRUE)
    BY <1>1, <2>1, <2>2, ModifyLands
  <2>4. Follows("output_p0", {"touch_rst"}, TRUE)
    BY <2>2, <2>3, DoesFollows
  <2> QED BY <1>2, <1>5, <2>4 DEF Follows
<1>6. CASE r = "init" /\ k = 2
  <2>1. Current("bringup") = Set("ledmode_p0", {"touch_rst"})
    BY <1>4, <1>6, InitTable
  <2>2. "ledmode_p0" \in RegNames
    BY DEF RegNames
  <2>3. Does("ledmode_p0", {"touch_rst"}, TRUE)
    BY <1>1, <2>1, <2>2, ModifyLands
  <2>4. Follows("ledmode_p0", {"touch_rst"}, TRUE)
    BY <2>2, <2>3, DoesFollows
  <2> QED BY <1>2, <1>6, <2>4 DEF Follows
<1>7. CASE r = "init" /\ k = 3
  <2>1. Current("bringup") = Clear("config_p0", {"touch_rst"})
    BY <1>4, <1>7, InitTable
  <2>2. "config_p0" \in RegNames
    BY DEF RegNames
  <2>3. Does("config_p0", {"touch_rst"}, FALSE)
    BY <1>1, <2>1, <2>2, ModifyLands
  <2>4. Follows("config_p0", {"touch_rst"}, FALSE)
    BY <2>2, <2>3, DoesFollows
  <2> QED BY <1>2, <1>7, <2>4 DEF Follows
<1>8. CASE r = "init" /\ k = 4
  <2>1. Current("bringup") = WriteAll("ledmode_p1", P1)
    BY <1>4, <1>8, InitTable
  <2>2. "ledmode_p1" \in RegNames
    BY DEF RegNames
  <2>3. /\ regs'["ledmode_p1"] = P1 /\ lost'["ledmode_p1"] = {}
        /\ \A n \in RegNames \ {"ledmode_p1"} : regs'[n] = regs[n] /\ \A b : Stays(n, b)
    BY <1>1, <2>1, <2>2, WholeLands
  <2> QED BY <1>2, <1>8, <2>3 DEF RegNames
<1>9. CASE r = "init" /\ k = 5
  <2>1. Current("bringup") = WriteAll("output_p1", {"cam_rst", "lcd_rst"})
    BY <1>4, <1>9, InitTable
  <2>2. "output_p1" \in RegNames
    BY DEF RegNames
  <2>3. /\ regs'["output_p1"] = {"cam_rst", "lcd_rst"} /\ lost'["output_p1"] = {}
        /\ \A n \in RegNames \ {"output_p1"} : regs'[n] = regs[n] /\ \A b : Stays(n, b)
    BY <1>1, <2>1, <2>2, WholeLands
  <2> QED BY <1>2, <1>9, <2>3 DEF RegNames
<1>10. CASE r = "init" /\ k = 6
  <2>1. Current("bringup") = WriteAll("config_p1", P1 \ {"cam_rst", "lcd_rst"})
    BY <1>4, <1>10, InitTable
  <2>2. "config_p1" \in RegNames
    BY DEF RegNames
  <2>3. /\ regs'["config_p1"] = P1 \ {"cam_rst", "lcd_rst"} /\ lost'["config_p1"] = {}
        /\ \A n \in RegNames \ {"config_p1"} : regs'[n] = regs[n] /\ \A b : Stays(n, b)
    BY <1>1, <2>1, <2>2, WholeLands
  <2> QED BY <1>2, <1>10, <2>3 DEF RegNames
<1>11. CASE r = "lcd" /\ k = 1
  <2>1. Current("bringup") = WriteAll("output_p1", {"cam_rst"})
    BY <1>4, <1>11, PulseTable
  <2>2. "output_p1" \in RegNames
    BY DEF RegNames
  <2>3. /\ regs'["output_p1"] = {"cam_rst"} /\ lost'["output_p1"] = {}
        /\ \A n \in RegNames \ {"output_p1"} : regs'[n] = regs[n] /\ \A b : Stays(n, b)
    BY <1>1, <2>1, <2>2, WholeLands
  <2> QED BY <1>2, <1>11, <2>3 DEF RegNames
<1>12. CASE r = "lcd" /\ k = 2
  <2>1. Current("bringup") = WriteAll("output_p1", {"cam_rst", "lcd_rst"})
    BY <1>4, <1>12, PulseTable
  <2>2. "output_p1" \in RegNames
    BY DEF RegNames
  <2>3. /\ regs'["output_p1"] = {"cam_rst", "lcd_rst"} /\ lost'["output_p1"] = {}
        /\ \A n \in RegNames \ {"output_p1"} : regs'[n] = regs[n] /\ \A b : Stays(n, b)
    BY <1>1, <2>1, <2>2, WholeLands
  <2> QED BY <1>2, <1>12, <2>3 DEF RegNames
<1>13. CASE r = "touch" /\ k = 1
  <2>1. Current("bringup") = Clear("output_p0", {"touch_rst"})
    BY <1>4, <1>13, PulseTable
  <2>2. "output_p0" \in RegNames
    BY DEF RegNames
  <2>3. Does("output_p0", {"touch_rst"}, FALSE)
    BY <1>1, <2>1, <2>2, ModifyLands
  <2>4. Follows("output_p0", {"touch_rst"}, FALSE)
    BY <2>2, <2>3, DoesFollows
  <2> QED BY <1>2, <1>13, <2>4 DEF Follows
<1>14. CASE r = "touch" /\ k = 2
  <2>1. Current("bringup") = Set("output_p0", {"touch_rst"})
    BY <1>4, <1>14, PulseTable
  <2>2. "output_p0" \in RegNames
    BY DEF RegNames
  <2>3. Does("output_p0", {"touch_rst"}, TRUE)
    BY <1>1, <2>1, <2>2, ModifyLands
  <2>4. Follows("output_p0", {"touch_rst"}, TRUE)
    BY <2>2, <2>3, DoesFollows
  <2> QED BY <1>2, <1>14, <2>4 DEF Follows
<1>15. CASE r = "backlight" /\ k = 1
  <2>1. Current("bringup") = WriteAll("dldo1_vol", {"3300mV"})
    BY <1>4, <1>15, RailTable
  <2>2. "dldo1_vol" \in RegNames
    BY DEF RegNames
  <2>3. /\ regs'["dldo1_vol"] = {"3300mV"} /\ lost'["dldo1_vol"] = {}
        /\ \A n \in RegNames \ {"dldo1_vol"} : regs'[n] = regs[n] /\ \A b : Stays(n, b)
    BY <1>1, <2>1, <2>2, WholeLands
  <2> QED BY <1>2, <1>15, <2>3 DEF RegNames
<1>16. CASE r = "backlight" /\ k = 2
  <2>1. Current("bringup") = Set("ldo_en", {"dldo1"})
    BY <1>4, <1>16, RailTable
  <2>2. "ldo_en" \in RegNames
    BY DEF RegNames
  <2>3. Does("ldo_en", {"dldo1"}, TRUE)
    BY <1>1, <2>1, <2>2, ModifyLands
  <2>4. Follows("ldo_en", {"dldo1"}, TRUE)
    BY <2>2, <2>3, DoesFollows
  <2> QED BY <1>2, <1>16, <2>4 DEF Follows
<1>17. CASE r = "adc" /\ k = 1
  <2>1. Current("bringup") = Set("adc_en", {"vbat"})
    BY <1>4, <1>17, RailTable
  <2>2. "adc_en" \in RegNames
    BY DEF RegNames
  <2>3. Does("adc_en", {"vbat"}, TRUE)
    BY <1>1, <2>1, <2>2, ModifyLands
  <2>4. Follows("adc_en", {"vbat"}, TRUE)
    BY <2>2, <2>3, DoesFollows
  <2> QED BY <1>2, <1>17, <2>4 DEF Follows
<1> QED BY <1>3, <1>5, <1>6, <1>7, <1>8, <1>9, <1>10, <1>11, <1>12, <1>13, <1>14, <1>15, <1>16, <1>17

--------------------------------------------------------------------------------
(* Types                                                                        *)

LEMMA TypesInit == Init => ChipTypes
<1> SUFFICES ASSUME Init PROVE ChipTypes
  OBVIOUS
<1> USE DEF Init, ChipInit
<1>1. \A t \in Tasks : routine[t] \in Stages[t] /\ DOMAIN routine = Tasks
  BY DEF Stages, Guard, Tasks
<1>2. op = [t \in Tasks |-> 1] /\ op \in [Tasks -> Nat]
  OBVIOUS
<1>3. DOMAIN regs = Registers /\ DOMAIN val = Tasks /\ failed \in [Tasks -> BOOLEAN]
  OBVIOUS
<1> QED BY <1>1, <1>2, <1>3 DEF ChipTypes, Tasks

LEMMA TypesStay ==
  ASSUME ChipTypes, UNCHANGED chipVars
  PROVE  ChipTypes'
BY DEF ChipTypes, chipVars, boardVars, guardVars, Running

\* The application goes from one stage to another; its routine begins with its
\* first access.
LEMMA TypesAsk ==
  ASSUME ChipTypes, NEW stage \in Stages["power"], Power(stage), UNCHANGED <<op, val, failed, lost, boardVars, regs>>,
         routine["power"] \notin DOMAIN Ops, inOrder' \in BOOLEAN, vbus' \in BOOLEAN, high' \in Nat, spared' \in BOOLEAN
  PROVE  ChipTypes'
<1>1. routine' = [routine EXCEPT !["power"] = stage] /\ DOMAIN routine = Tasks
  BY DEF Power, ChipTypes
<1>2. routine'["power"] = stage /\ routine'["bringup"] = routine["bringup"] /\ DOMAIN routine' = Tasks
  BY <1>1 DEF Tasks
<1>3. \A t \in Tasks : routine'[t] \in Stages[t]
  BY <1>2 DEF ChipTypes, Tasks
<1>4. ASSUME NEW t \in Tasks, op[t] # 1 PROVE Running(t)' /\ op[t] \in 1..Len(Ops[routine'[t]])
  <2>1. t = "bringup"
    BY <1>4 DEF Tasks, ChipTypes, Running
  <2> QED BY <1>2, <1>4, <2>1 DEF ChipTypes, Running
<1> QED BY <1>2, <1>3, <1>4 DEF ChipTypes, boardVars

LEMMA ReadingBound ==
  ASSUME NEW volts \in Voltages
  PROVE  volts \in 0..16383 /\ Reading(volts) \in 0..16383
BY ExpanderAssumption DEF Reading

LEMMA Decision ==
  ASSUME NEW mv, Decided(mv)
  PROVE  Power("bus_5v") \/ Power("refused")
<1>1. CASE mv > 3300 \/ ~vbus
  BY <1>1 DEF Decided
<1>2. CASE ~(mv > 3300 \/ ~vbus)
  BY <1>2 DEF Decided
<1> QED BY <1>1, <1>2

LEMMA TypesStep ==
  ASSUME ChipTypes, [Next]_vars
  PROVE  ChipTypes'
<1>1. CASE UNCHANGED chipVars
  BY <1>1, TypesStay
<1>2. CASE Waited \/ MakePins \/ InitPanel \/ InitFails \/ FinishBus \/ UNCHANGED vars
  BY <1>1, <1>2 DEF Waited, MakePins, InitPanel, InitFails, FinishBus, vars
<1>3. CASE AskFor5v
  <2>1. Power("vbus") /\ "vbus" \in Stages["power"]
    BY <1>3 DEF AskFor5v, Stages, Guard
  <2>2. UNCHANGED <<op, val, failed, lost, boardVars, regs>>
    BY <1>3 DEF AskFor5v
  <2>3. routine["power"] \notin DOMAIN Ops
    BY <1>3, Routines DEF AskFor5v, At
  <2>4. inOrder' \in BOOLEAN /\ vbus' \in BOOLEAN /\ high' \in Nat /\ spared' \in BOOLEAN
    BY <1>3 DEF AskFor5v, guardVars, ChipTypes
  <2> QED BY <2>1, <2>2, <2>3, <2>4, TypesAsk
<1>4. CASE ReadVbus \/ ReadVbatHigh \/ ReadVbatLow \/ VbatFails
  <2>1. \E stage \in {"vbat_high", "vbat_low", "bus_5v", "refused"} : Power(stage)
    <3>1. CASE ReadVbus \/ ReadVbatHigh
      BY <3>1 DEF ReadVbus, ReadVbatHigh
    <3>2. CASE ReadVbatLow \/ VbatFails
      <4>1. \E mv : Decided(mv)
        BY <3>2 DEF ReadVbatLow, VbatFails
      <4> QED BY <4>1, Decision
    <3> QED BY <1>4, <3>1, <3>2
  <2>2. {"vbat_high", "vbat_low", "bus_5v", "refused"} \subseteq Stages["power"]
    BY DEF Stages, Guard
  <2>3. UNCHANGED <<op, val, failed, lost, boardVars, regs, inOrder>>
    BY <1>4 DEF ReadVbus, ReadVbatHigh, ReadVbatLow, VbatFails, GuardStays
  <2>4. routine["power"] \notin DOMAIN Ops
    BY <1>4, Routines DEF ReadVbus, ReadVbatHigh, ReadVbatLow, VbatFails, At
  <2>5. vbus' \in BOOLEAN /\ high' \in Nat /\ spared' \in BOOLEAN
    <3>1. CASE ReadVbus
      BY <3>1 DEF ReadVbus, ChipTypes
    <3>2. CASE ReadVbatHigh
      <4>1. PICK volts \in Voltages : high' = Reading(volts) \div 256 /\ spared' = (spared \/ volts > 3300)
        BY <3>2 DEF ReadVbatHigh
      <4>2. PICK x \in 0..16383 : x = Reading(volts)
        BY ReadingBound
      <4>3. high' \in Nat
        <5>1. x \div 256 \in Nat
          OBVIOUS
        <5> QED BY <4>1, <4>2, <5>1
      <4>4. vbus' = vbus
        BY <3>2 DEF ReadVbatHigh
      <4> QED BY <4>1, <4>3, <4>4 DEF ChipTypes
    <3>3. CASE ReadVbatLow
      BY <3>3 DEF ReadVbatLow
    <3>4. CASE VbatFails
      BY <3>4 DEF VbatFails, ChipTypes
    <3> QED BY <1>4, <3>1, <3>2, <3>3, <3>4
  <2> QED BY <2>1, <2>2, <2>3, <2>4, <2>5, TypesAsk DEF ChipTypes
<1>5. ASSUME NEW t \in Tasks, Step(t)
      PROVE  ChipTypes'
  <2>1. UNCHANGED <<inOrder, guardVars, boardVars>> /\ DOMAIN regs' = Registers /\ DOMAIN val' = Tasks
        /\ DOMAIN lost' = Registers /\ failed' \in [Tasks -> BOOLEAN]
    BY <1>5 DEF Step, ReadReg, WriteReg, AccessFails, Lands, Proceed, ChipTypes
  <2>2. \/ UNCHANGED <<routine, op>>
        \/ /\ UNCHANGED routine /\ op' = [op EXCEPT ![t] = op[t] + 1]
           /\ op[t] + 1 \in 1..Len(Ops[routine[t]])
        \/ op' = [op EXCEPT ![t] = 1] /\ UNCHANGED routine
        \/ op' = [op EXCEPT ![t] = 1] /\ routine' = [routine EXCEPT ![t] = Then[routine[t]]]
    <3>1. CASE ReadReg(t)
      BY <3>1 DEF ReadReg
    <3>2. CASE WriteReg(t)
      <4>1. op[t] \in 1..Len(Ops[routine[t]])
        BY <3>2, OpInRange DEF WriteReg
      <4> QED BY <3>2, <4>1, Onward
    <3>3. CASE AccessFails(t)
      BY <3>3 DEF AccessFails, Proceed
    <3> QED BY <1>5, <3>1, <3>2, <3>3 DEF Step
  <2>3. Running(t) /\ Then[routine[t]] \in Stages[t]
    <3>1. Running(t)
      BY <1>5 DEF Step, ReadReg, WriteReg, AccessFails
    <3>2. CASE t = "power"
      BY <3>1, <3>2, PowerRuns, Following DEF Stages
    <3>3. CASE t = "bringup"
      BY <3>1, <3>3, BringupRuns, Following DEF Stages
    <3> QED BY <3>1, <3>2, <3>3 DEF Tasks
  <2>4. DOMAIN routine' = Tasks /\ \A u \in Tasks : routine'[u] \in Stages[u]
    BY <2>2, <2>3 DEF ChipTypes
  <2>5. op' \in [Tasks -> Nat]
    BY <2>2 DEF ChipTypes
  <2>6. ASSUME NEW u \in Tasks, op'[u] # 1 PROVE Running(u)' /\ op'[u] \in 1..Len(Ops[routine'[u]])
    BY <2>2, <2>3, <2>6 DEF ChipTypes, Running
  <2> QED BY <2>1, <2>4, <2>5, <2>6 DEF ChipTypes, boardVars, guardVars
<1> QED BY <1>2, <1>3, <1>4, <1>5 DEF Next, Chips, ChipStep

--------------------------------------------------------------------------------
(* Who steps leaves the other task alone, and the guard to itself.              *)

LEMMA AskFrame ==
  ASSUME ChipTypes, AskFor5v \/ ReadVbus \/ ReadVbatHigh \/ ReadVbatLow \/ VbatFails
  PROVE  /\ UNCHANGED <<regs, op, val, failed, lost, boardVars>> /\ ~PastGuard
         /\ routine'["bringup"] = routine["bringup"] /\ routine["power"] \notin DOMAIN Ops
         /\ \E stage \in {"vbus", "vbat_high", "vbat_low", "bus_5v", "refused"} : routine'["power"] = stage
<1>1. \E stage \in {"vbus", "vbat_high", "vbat_low", "bus_5v", "refused"} : Power(stage)
  <2>1. CASE AskFor5v \/ ReadVbus \/ ReadVbatHigh
    BY <2>1 DEF AskFor5v, ReadVbus, ReadVbatHigh
  <2>2. CASE ReadVbatLow \/ VbatFails
    <3>1. \E mv : Decided(mv)
      BY <2>2 DEF ReadVbatLow, VbatFails
    <3> QED BY <3>1, Decision
  <2> QED BY <2>1, <2>2
<1>2. UNCHANGED <<regs, op, val, failed, lost, boardVars>>
  BY DEF AskFor5v, ReadVbus, ReadVbatHigh, ReadVbatLow, VbatFails, GuardStays
<1>3. routine["power"] \in {"idle", "vbus", "vbat_high", "vbat_low"}
  BY DEF AskFor5v, ReadVbus, ReadVbatHigh, ReadVbatLow, VbatFails, At
<1> QED BY <1>1, <1>2, <1>3, Routines DEF PastGuard, Power, ChipTypes, Tasks

LEMMA StepFrame ==
  ASSUME ChipTypes, NEW t \in Tasks, Step(t)
  PROVE  /\ Running(t) /\ UNCHANGED <<inOrder, guardVars, boardVars, PastGuard>>
         /\ \A u \in Tasks \ {t} : /\ routine'[u] = routine[u] /\ op'[u] = op[u]
                                   /\ val'[u] = val[u] /\ failed'[u] = failed[u]
         /\ t = "power" => PastGuard
<1>1. Running(t) /\ UNCHANGED <<inOrder, guardVars, boardVars>>
  BY DEF Step, ReadReg, WriteReg, AccessFails
<1>2. \A u \in Tasks \ {t} : /\ routine'[u] = routine[u] /\ op'[u] = op[u]
                             /\ val'[u] = val[u] /\ failed'[u] = failed[u]
  <2>1. CASE ReadReg(t)
    BY <2>1 DEF ReadReg, ChipTypes
  <2>2. CASE WriteReg(t)
    BY <2>2 DEF WriteReg, Proceed, ChipTypes
  <2>3. CASE AccessFails(t)
    BY <2>3 DEF AccessFails, Proceed, ChipTypes
  <2> QED BY <2>1, <2>2, <2>3 DEF Step
<1>3. CASE t = "power"
  <2>1. routine["power"] = "bus_5v"
    BY <1>1, <1>3, PowerRuns
  <2>2. routine' = routine \/ routine' = [routine EXCEPT !["power"] = Then["bus_5v"]]
    BY <1>3, <2>1 DEF Step, ReadReg, WriteReg, AccessFails, Proceed
  <2>3. routine'["power"] \in {"bus_5v", "done"}
    BY <1>3, <2>1, <2>2, Following DEF ChipTypes
  <2> QED BY <1>1, <1>2, <2>1, <2>3 DEF PastGuard
<1>4. CASE t = "bringup"
  <2>1. routine'["power"] = routine["power"]
    BY <1>2, <1>4 DEF Tasks
  <2> QED BY <1>1, <1>2, <1>4, <2>1 DEF PastGuard
<1> QED BY <1>3, <1>4 DEF Tasks

--------------------------------------------------------------------------------
(* The guard                                                                    *)

LEMMA GuardStep ==
  ASSUME ChipTypes, GuardInv, [Next]_vars
  PROVE  GuardInv'
<1>1. CASE UNCHANGED chipVars
  BY <1>1 DEF chipVars, guardVars, GuardInv, PastGuard
<1>2. CASE Waited \/ MakePins \/ InitPanel \/ InitFails \/ FinishBus \/ UNCHANGED vars
  BY <1>1, <1>2 DEF Waited, MakePins, InitPanel, InitFails, FinishBus, vars
<1>3. CASE AskFor5v \/ ReadVbus \/ ReadVbatHigh
  <2>1. ~PastGuard'
    <3>1. Power("vbus") \/ Power("vbat_high") \/ Power("vbat_low")
      BY <1>3 DEF AskFor5v, ReadVbus, ReadVbatHigh
    <3>2. routine'["power"] \in {"vbus", "vbat_high", "vbat_low"}
      BY <3>1 DEF Power, ChipTypes, Tasks
    <3> QED BY <3>2 DEF PastGuard
  <2>2. ~vbus' => spared'
    <3>1. CASE AskFor5v
      BY <3>1 DEF AskFor5v, guardVars, GuardInv
    <3>2. CASE ReadVbus
      BY <3>2 DEF ReadVbus, GuardInv
    <3>3. CASE ReadVbatHigh
      <4>1. PICK volts \in Voltages : spared' = (spared \/ volts > 3300)
        BY <3>3 DEF ReadVbatHigh
      <4> DEFINE full == volts > 3300
      <4>2. spared \in BOOLEAN /\ full \in BOOLEAN /\ spared' = (spared \/ full)
        BY <4>1 DEF ChipTypes
      <4> HIDE DEF full
      <4>3. spared => spared'
        BY <4>2
      <4>4. vbus' = vbus
        BY <3>3 DEF ReadVbatHigh
      <4> QED BY <4>3, <4>4 DEF GuardInv
    <3> QED BY <1>3, <3>1, <3>2, <3>3
  <2> QED BY <2>1, <2>2 DEF GuardInv
<1>4. CASE ReadVbatLow
  <2>1. PICK volts \in Voltages :
          /\ Decided((high * 256) + (Reading(volts) % 256))
          /\ spared' = (spared \/ volts > 3300 \/ Reading(volts) \div 256 # high)
    BY <1>4 DEF ReadVbatLow
  <2>2. PICK x \in 0..16383 : x = Reading(volts)
    BY ReadingBound
  <2>3. (x = volts \/ x = 0) /\ volts \in 0..16383
    BY <2>2, ReadingBound DEF Reading
  <2>4. Decided((high * 256) + (x % 256)) /\ spared' = (spared \/ volts > 3300 \/ x \div 256 # high)
    BY <2>1, <2>2
  <2>5. ~spared' => ~spared /\ high = x \div 256 /\ ~(volts > 3300)
    <3> DEFINE moved == x \div 256 # high
    <3> DEFINE full == volts > 3300
    <3>1. spared' = (spared \/ full \/ moved)
      BY <2>4
    <3>2. spared \in BOOLEAN /\ full \in BOOLEAN /\ moved \in BOOLEAN
      BY DEF ChipTypes
    <3> HIDE DEF moved, full
    <3>3. ~spared' => ~spared /\ ~full /\ ~moved
      BY <3>1, <3>2
    <3> QED BY <3>3 DEF moved, full
  <2>6. ~spared' => ~((high * 256) + (x % 256) > 3300)
    <3>1. ((x \div 256) * 256) + (x % 256) = x
      OBVIOUS
    <3>2. ~(volts > 3300) => ~(x > 3300)
      BY <2>3
    <3> QED BY <2>5, <3>1, <3>2
  <2>7. ~spared' => Power("refused")
    <3>1. ~spared' => vbus
      BY <2>5 DEF GuardInv, ChipTypes
    <3>2. PICK mv : mv = (high * 256) + (x % 256)
      OBVIOUS
    <3> QED BY <2>4, <2>6, <3>1, <3>2 DEF Decided
  <2>8. ~spared' => ~PastGuard'
    BY <2>7 DEF Power, PastGuard, ChipTypes, Tasks
  <2>9. vbus' = TRUE
    BY <1>4 DEF ReadVbatLow
  <2> QED BY <2>8, <2>9 DEF GuardInv
<1>5. CASE VbatFails
  <2>1. Decided(0) /\ spared' = spared /\ vbus' = TRUE
    BY <1>5 DEF VbatFails
  <2>2. ~spared => Power("refused")
    BY <2>1 DEF Decided, GuardInv
  <2>3. ~spared' => ~PastGuard'
    BY <2>1, <2>2 DEF Power, PastGuard, ChipTypes, Tasks
  <2> QED BY <2>1, <2>3 DEF GuardInv
<1>6. ASSUME NEW t \in Tasks, Step(t)
      PROVE  GuardInv'
  BY <1>6, StepFrame DEF GuardInv, guardVars
<1> QED BY <1>2, <1>3, <1>4, <1>5, <1>6 DEF Next, Chips, ChipStep

--------------------------------------------------------------------------------
(* The direction registers                                                      *)

\* Which accesses change the direction of a pin.
LEMMA Directions ==
  ASSUME ChipTypes, NEW t \in Tasks, Running(t), NEW c, c = Current(t)
  PROVE  /\ c.reg = "config_p0" =>
              c.kind = "clear" /\ (c.mask = {"touch_rst"} \/ (t = "power" /\ c.mask = {"bus_out_en"}))
         /\ c.reg = "config_p1" =>
              t = "power" \/ (c.kind = "write" /\ c.mask = P1 \ {"cam_rst", "lcd_rst"})
<1>1. CASE t = "power"
  <2>1. PICK k \in 1..7 : routine["power"] = "bus_5v" /\ op["power"] = k
    BY <1>1, PowerRuns
  <2>2. c = Ops["bus_5v"][k]
    BY <1>1, <2>1 DEF Current
  <2>3. CASE k = 7
    <3>1. c = Clear("config_p0", {"bus_out_en"})
      BY <2>2, <2>3, PowerTable
    <3>2. c.kind = "clear" /\ c.reg = "config_p0" /\ c.mask = {"bus_out_en"}
      BY <3>1, Kinds
    <3> QED BY <1>1, <3>2
  <2>4. CASE k = 3
    <3>1. c = Clear("config_p1", {"boost_en"})
      BY <2>2, <2>4, PowerTable
    <3>2. c.reg = "config_p1"
      BY <3>1, Kinds
    <3>3. c.reg # "config_p0"
      BY <3>2
    <3> QED BY <1>1, <3>3
  <2>5. CASE k \in {1, 2, 4, 5, 6}
    BY <1>1, <2>2, <2>5, PowerTable, Kinds
  <2> QED BY <2>3, <2>4, <2>5
<1>2. CASE t = "bringup"
  <2>1. PICK r, k : routine["bringup"] = r /\ op["bringup"] = k
    OBVIOUS
  <2>2. c = Ops[r][k]
    BY <1>2, <2>1 DEF Current
  <2>3. CASE r = "init" /\ k \in 1..6
    <3>1. CASE k = 3
      <4>1. c = Clear("config_p0", {"touch_rst"})
        BY <2>2, <2>3, <3>1, InitTable
      <4>2. c.kind = "clear" /\ c.reg = "config_p0" /\ c.mask = {"touch_rst"}
        BY <4>1, Kinds
      <4>3. c.reg # "config_p1"
        BY <4>2
      <4> QED BY <4>2, <4>3
    <3>2. CASE k = 6
      <4>1. c = WriteAll("config_p1", P1 \ {"cam_rst", "lcd_rst"})
        BY <2>2, <2>3, <3>2, InitTable
      <4>2. c.kind = "write" /\ c.reg = "config_p1" /\ c.mask = P1 \ {"cam_rst", "lcd_rst"}
        BY <4>1, Kinds
      <4> QED BY <4>2
    <3>3. CASE k \in {1, 2, 4, 5}
      <4>1. c.reg \in {"output_p0", "ledmode_p0", "ledmode_p1", "output_p1"}
        BY <2>2, <2>3, <3>3, InitTable, Kinds
      <4> QED BY <4>1
    <3> QED BY <2>3, <3>1, <3>2, <3>3
  <2>4. CASE r \in {"lcd", "touch"} /\ k \in 1..2
    <3>1. c.reg \in {"output_p0", "output_p1"}
      BY <2>2, <2>4, PulseTable, Kinds
    <3> QED BY <3>1
  <2>5. CASE (r = "backlight" /\ k \in 1..2) \/ (r = "adc" /\ k = 1)
    <3>1. c.reg \in {"dldo1_vol", "ldo_en", "adc_en"}
      BY <2>2, <2>5, RailTable, Kinds
    <3> QED BY <3>1
  <2>6. \/ r = "init" /\ k \in 1..6
        \/ r \in {"lcd", "touch", "backlight"} /\ k \in 1..2
        \/ r = "adc" /\ k = 1
    <3>1. Running("bringup")
      BY <1>2
    <3> QED BY <2>1, <3>1, BringupRuns
  <2>7. \/ r = "init" /\ k \in 1..6
        \/ r \in {"lcd", "touch"} /\ k \in 1..2
        \/ r = "backlight" /\ k \in 1..2
        \/ r = "adc" /\ k = 1
    BY <2>6
  <2> QED BY <2>3, <2>4, <2>5, <2>7
<1> QED BY <1>1, <1>2 DEF Tasks

LEMMA ConfigAsk ==
  ASSUME ChipTypes, ConfigInv, AskFor5v \/ ReadVbus \/ ReadVbatHigh \/ ReadVbatLow \/ VbatFails
  PROVE  ConfigInv'
<1>1. UNCHANGED <<regs, op, val>> /\ ~PastGuard /\ routine'["bringup"] = routine["bringup"]
  BY AskFrame
<1>2. op["power"] = 1
  BY AskFrame DEF ChipTypes, Running, Tasks
<1>3. PICK stage \in {"vbus", "vbat_high", "vbat_low", "bus_5v", "refused"} : routine'["power"] = stage
  BY AskFrame
<1>4. Undriven(regs.config_p0)' /\ (~PastGuard' => "boost_en" \in regs'.config_p1)
  BY <1>1 DEF ConfigInv, Undriven
<1>5. ASSUME NEW t \in Tasks, Running(t)', Current(t)'.reg = "config_p0", val'[t] # Unread
      PROVE  Undriven(val[t])'
  <2>1. CASE t = "bringup"
    <3>1. Running(t) /\ Current(t).reg = "config_p0" /\ val[t] # Unread /\ val'[t] = val[t]
      BY <1>1, <1>5, <2>1 DEF Running, Current
    <3> QED BY <1>1, <3>1 DEF ConfigInv, Undriven
  <2>2. CASE t = "power"
    <3>1. stage = "bus_5v"
      BY <1>3, <1>5, <2>2, Routines DEF Running
    <3>2. Current(t)' = Set("ledmode_p1", {"boost_en"})
      BY <1>1, <1>2, <1>3, <2>2, <3>1, PowerTable DEF Current
    <3>3. Current(t)'.reg = "ledmode_p1"
      BY <3>2, Kinds
    <3> QED BY <1>5, <3>3
  <2> QED BY <2>1, <2>2 DEF Tasks
<1> QED BY <1>4, <1>5 DEF ConfigInv

LEMMA ConfigTask ==
  ASSUME ChipTypes, ConfigInv, NEW t \in Tasks, Step(t)
  PROVE  ConfigInv'
<1>1. /\ Running(t) /\ PastGuard' = PastGuard
      /\ \A u \in Tasks \ {t} : routine'[u] = routine[u] /\ op'[u] = op[u] /\ val'[u] = val[u]
      /\ t = "power" => PastGuard
  BY StepFrame
<1>2. DOMAIN regs = Registers /\ DOMAIN val = Tasks /\ {"config_p0", "config_p1"} \subseteq Registers
  BY Names DEF ChipTypes, RegNames
<1>3. ASSUME NEW set PROVE Undriven(set)' = Undriven(set)
  BY <1>1 DEF Undriven
<1>4. ASSUME NEW u \in Tasks \ {t}, Running(u)', Current(u)'.reg = "config_p0", val'[u] # Unread
      PROVE  Undriven(val[u])'
  <2>1. Running(u) /\ Current(u).reg = "config_p0" /\ val[u] # Unread /\ val'[u] = val[u]
    BY <1>1, <1>4 DEF Running, Current
  <2> QED BY <1>1, <2>1 DEF ConfigInv, Undriven
<1>5. CASE ReadReg(t)
  <2>1. UNCHANGED <<regs, routine, op>> /\ val'[t] = regs[Current(t).reg]
    BY <1>2, <1>5 DEF ReadReg
  <2>2. Current(t)' = Current(t)
    BY <2>1 DEF Current
  <2>3. Current(t)'.reg = "config_p0" => Undriven(val[t])'
    BY <1>1, <2>1, <2>2 DEF ConfigInv, Undriven
  <2>4. Undriven(regs.config_p0)' /\ (~PastGuard' => "boost_en" \in regs'.config_p1)
    BY <1>1, <2>1 DEF ConfigInv, Undriven
  <2> QED BY <1>4, <2>3, <2>4 DEF ConfigInv
<1>6. CASE WriteReg(t) \/ AccessFails(t)
  <2>1. val'[t] = Unread
    BY <1>2, <1>6 DEF WriteReg, AccessFails, Proceed
  <2>2. Undriven(regs.config_p0)' /\ (~PastGuard' => "boost_en" \in regs'.config_p1)
    <3>1. CASE UNCHANGED regs
      BY <1>1, <3>1 DEF ConfigInv, Undriven
    <3>2. CASE Lands(t)
      <4>1. PICK c : c = Current(t)
        OBVIOUS
      <4>2. regs' = [regs EXCEPT ![c.reg] = Modified(t)] /\ (c.kind = "write" \/ val[t] # Unread)
        BY <3>2, <4>1 DEF Lands
      <4>3. Undriven(regs'.config_p0)
        <5>1. CASE c.reg # "config_p0"
          <6>1. regs'.config_p0 = regs.config_p0
            BY <1>2, <4>2, <5>1
          <6> QED BY <6>1 DEF ConfigInv
        <5>2. CASE c.reg = "config_p0"
          <6>1. c.kind = "clear" /\ (c.mask = {"touch_rst"} \/ (PastGuard /\ c.mask = {"bus_out_en"}))
            BY <1>1, <4>1, <5>2, Directions
          <6>2. regs'.config_p0 = val[t] \ c.mask
            BY <1>2, <4>1, <4>2, <5>2, <6>1 DEF Modified
          <6>3. Undriven(val[t])
            BY <1>1, <4>1, <4>2, <5>2, <6>1 DEF ConfigInv
          <6> QED BY <6>1, <6>2, <6>3 DEF Undriven
        <5> QED BY <5>1, <5>2
      <4>4. ~PastGuard => "boost_en" \in regs'.config_p1
        <5>1. CASE c.reg # "config_p1"
          <6>1. regs'.config_p1 = regs.config_p1
            BY <1>2, <4>2, <5>1
          <6> QED BY <6>1 DEF ConfigInv
        <5>2. CASE c.reg = "config_p1" /\ t # "power"
          <6>1. c.kind = "write" /\ c.mask = P1 \ {"cam_rst", "lcd_rst"}
            BY <1>1, <4>1, <5>2, Directions
          <6>2. regs'.config_p1 = P1 \ {"cam_rst", "lcd_rst"}
            BY <1>2, <4>1, <4>2, <5>2, <6>1 DEF Modified
          <6> QED BY <6>2 DEF P1
        <5> QED BY <1>1, <5>1, <5>2
      <4>5. Undriven(regs.config_p0)'
        BY <1>1, <4>3 DEF Undriven
      <4> QED BY <1>1, <4>4, <4>5
    <3> QED BY <1>6, <3>1, <3>2 DEF AccessFails, WriteReg
  <2> QED BY <1>4, <2>1, <2>2 DEF ConfigInv
<1> QED BY <1>5, <1>6 DEF Step

LEMMA ConfigStep ==
  ASSUME ChipTypes, ConfigInv, [Next]_vars
  PROVE  ConfigInv'
<1>1. CASE UNCHANGED chipVars
  BY <1>1 DEF ConfigInv, chipVars, Undriven, PastGuard, Running, Current
<1>2. CASE Waited \/ MakePins \/ InitPanel \/ InitFails \/ FinishBus \/ UNCHANGED vars
  BY <1>1, <1>2 DEF Waited, MakePins, InitPanel, InitFails, FinishBus, vars
<1> QED BY <1>2, ConfigAsk, ConfigTask DEF Next, Chips, ChipStep

--------------------------------------------------------------------------------
(* What the accesses leave                                                      *)

Idle == Waited \/ MakePins \/ InitPanel \/ InitFails \/ FinishBus

LEMMA IdleFrame ==
  ASSUME Idle \/ UNCHANGED vars
  PROVE  UNCHANGED chipVars
BY DEF Idle, Waited, MakePins, InitPanel, InitFails, FinishBus, vars

\* A step of the chips is the guard's, or an access that reads, writes or fails.
LEMMA Steps ==
  ASSUME ChipTypes, [Next]_vars
  PROVE  \/ Idle \/ UNCHANGED vars
         \/ /\ board = "cores3" /\ panel' = PanelAfterChips(regs') /\ UNCHANGED <<display, pins, hurried>>
            /\ \/ AskFor5v \/ ReadVbus \/ ReadVbatHigh \/ ReadVbatLow \/ VbatFails
               \/ Step("power") \/ Step("bringup")
BY DEF Next, Chips, ChipStep, Idle, Tasks

LEMMA ReadFrame ==
  ASSUME NEW t \in Tasks, ReadReg(t)
  PROVE  UNCHANGED <<regs, routine, op, failed, lost, inOrder>>
BY DEF ReadReg

\* What fails shows, or is tried again from the first access.
LEMMA FailFrame ==
  ASSUME ChipTypes, NEW t \in Tasks, AccessFails(t)
  PROVE  /\ Lands(t) \/ UNCHANGED <<regs, lost>>
         /\ \/ failed'[t] = TRUE
            \/ t = "bringup" /\ routine[t] = "init" /\ routine'[t] = "init" /\ failed'[t] = failed[t]
<1>1. Lands(t) \/ UNCHANGED <<regs, lost>>
  BY DEF AccessFails
<1>2. CASE routine[t] = "init" /\ tries < FallbackTries
  <2>1. UNCHANGED <<routine, failed>>
    BY <1>2 DEF AccessFails
  <2>2. t = "bringup"
    BY <1>2 DEF ChipTypes, Stages, Guard, Tasks
  <2> QED BY <1>1, <1>2, <2>1, <2>2
<1>3. CASE ~(routine[t] = "init" /\ tries < FallbackTries)
  BY <1>1, <1>3 DEF AccessFails, ChipTypes
<1> QED BY <1>2, <1>3

LEMMA WriteFrame ==
  ASSUME NEW t \in Tasks, WriteReg(t)
  PROVE  Lands(t) /\ UNCHANGED failed
BY DEF WriteReg

LEMMA PastFirst ==
  ASSUME ChipTypes, AskFor5v \/ ReadVbus \/ ReadVbatHigh \/ ReadVbatLow \/ VbatFails, NEW n \in 1..7
  PROVE  ~Passed(n)'
<1>1. op["power"] = 1 /\ op' = op
  BY AskFrame DEF ChipTypes, Running, Tasks
<1>2. routine'["power"] # "done"
  BY AskFrame
<1> QED BY <1>1, <1>2 DEF Passed

LEMMA KeptAsk ==
  ASSUME ChipTypes, KeptInv, AskFor5v \/ ReadVbus \/ ReadVbatHigh \/ ReadVbatLow \/ VbatFails
  PROVE  KeptInv'
<1>1. UNCHANGED <<regs, op, failed, lost>> /\ routine'["bringup"] = routine["bringup"]
  BY AskFrame
<1>2. inOrder' => routine'["bringup"] = "done"
  <2>1. CASE AskFor5v
    BY <1>1, <2>1 DEF AskFor5v
  <2>2. CASE ReadVbus \/ ReadVbatHigh \/ ReadVbatLow \/ VbatFails
    <3>1. inOrder' = inOrder
      BY <2>2 DEF ReadVbus, ReadVbatHigh, ReadVbatLow, VbatFails, GuardStays
    <3> QED BY <1>1, <3>1 DEF KeptInv
  <2> QED BY <2>1, <2>2
<1>3. \A stages : InStage(stages)' = InStage(stages)
  BY <1>1 DEF InStage
<1>4. \A n \in 1..7 : ~Passed(n)'
  BY PastFirst
<1>5. ~Passed(1)' /\ ~Passed(2)' /\ ~Passed(3)' /\ ~Passed(4)' /\ ~Passed(5)' /\ ~Passed(6)' /\ ~Passed(7)'
  BY <1>4
<1> QED BY <1>1, <1>2, <1>3, <1>5 DEF KeptInv, KeptHigh

\* An access of the application's routine that succeeds is passed.
LEMMA PowerPasses ==
  ASSUME ChipTypes, WriteReg("power"), NEW n \in 1..7, Passed(n)'
  PROVE  op["power"] = n \/ Passed(n)
<1>1. PICK k \in 1..7 : k = op["power"] /\ routine["power"] = "bus_5v"
  BY PowerRuns DEF WriteReg
<1>2. \/ k < 7 /\ routine' = routine /\ op'["power"] = k + 1
      \/ k = 7 /\ routine'["power"] = "done" /\ op'["power"] = 1
  <2>1. Len(Ops[routine["power"]]) = 7
    BY <1>1, Lengths
  <2>2. \/ op["power"] < 7 /\ UNCHANGED routine /\ op' = [op EXCEPT !["power"] = op["power"] + 1]
        \/ op["power"] = 7 /\ routine' = [routine EXCEPT !["power"] = Then[routine["power"]]]
           /\ op' = [op EXCEPT !["power"] = 1]
    BY <2>1, Onward DEF Tasks
  <2>3. Then[routine["power"]] = "done" /\ DOMAIN routine = Tasks /\ op \in [Tasks -> Nat] /\ "power" \in Tasks
    BY <1>1, Following DEF ChipTypes, Tasks
  <2> QED BY <1>1, <2>2, <2>3
<1>3. k >= n
  BY <1>1, <1>2 DEF Passed
<1> QED BY <1>1, <1>3 DEF Passed

LEMMA KeptPower ==
  ASSUME ChipTypes, KeptInv, Step("power")
  PROVE  KeptInv'
<1>1. /\ UNCHANGED inOrder /\ routine'["bringup"] = routine["bringup"] /\ failed'["bringup"] = failed["bringup"]
      /\ Running("power")
  BY StepFrame DEF Tasks
<1>2. \A stages : InStage(stages)' = InStage(stages)
  BY <1>1 DEF InStage
<1>3. CASE ReadReg("power")
  BY <1>3, ReadFrame DEF KeptInv, InStage, Passed, KeptHigh, KeptLow, Tasks
<1>4. CASE AccessFails("power") \/ WriteReg("power")
  <2>1. Lands("power") \/ UNCHANGED <<regs, lost>>
    BY <1>4, FailFrame, WriteFrame DEF Tasks
  <2>2. InStage({"backlight", "adc", "done"})' => KeptHigh("output_p0", "touch_rst")'
    <3>1. Stays("output_p0", "touch_rst")
      BY <1>1, <2>1, PowerLands, NothingLands
    <3> QED BY <1>2, <3>1, StaysKept DEF KeptInv
  <2>3. InStage({"adc", "done"})' => "dldo1" \in regs'.ldo_en
    <3>1. regs'.ldo_en = regs.ldo_en
      BY <1>1, <2>1, PowerLands
    <3> QED BY <1>2, <3>1 DEF KeptInv
  <2>4. inOrder' => routine'["bringup"] = "done"
    BY <1>1 DEF KeptInv
  <2>5. CASE AccessFails("power")
    <3>1. failed'["power"] = TRUE
      BY <1>1, <2>5, FailFrame, PowerRuns DEF Tasks
    <3>2. routine'["power"] = "done"
      <4>1. routine["power"] = "bus_5v"
        BY <1>1, PowerRuns
      <4> QED BY <2>5, <4>1, Following DEF AccessFails, Proceed, ChipTypes, Tasks
    <3>3. \A n : ~Passed(n)'
      BY <3>1, <3>2 DEF Passed
    <3> QED BY <2>2, <2>3, <2>4, <3>3 DEF KeptInv
  <2>6. CASE WriteReg("power")
    <3>1. Lands("power")
      BY <2>6, WriteFrame DEF Tasks
    <3>2. PICK k \in 1..7 : k = op["power"]
      BY <1>1, PowerRuns
    <3>3. Passed(4)' => KeptHigh("gcr", "p0_push_pull")'
      <4>1. IF k = 4 THEN "p0_push_pull" \in regs'["gcr"] ELSE Stays("gcr", "p0_push_pull")
        BY <1>1, <3>1, <3>2, PowerLands
      <4>2. k = 4 => KeptHigh("gcr", "p0_push_pull")'
        BY <4>1 DEF KeptHigh
      <4>3. k # 4 /\ KeptHigh("gcr", "p0_push_pull") => KeptHigh("gcr", "p0_push_pull")'
        BY <4>1, StaysKept
      <4>4. Passed(4)' => k = 4 \/ Passed(4)
        BY <2>6, <3>2, PowerPasses
      <4> QED BY <1>1, <4>2, <4>3, <4>4 DEF KeptInv
    <3>4. Passed(5)' => KeptHigh("ledmode_p0", "bus_out_en")'
      <4>1. IF k = 5 THEN "bus_out_en" \in regs'["ledmode_p0"] ELSE Stays("ledmode_p0", "bus_out_en")
        BY <1>1, <3>1, <3>2, PowerLands
      <4>2. k = 5 => KeptHigh("ledmode_p0", "bus_out_en")'
        BY <4>1 DEF KeptHigh
      <4>3. k # 5 /\ KeptHigh("ledmode_p0", "bus_out_en") => KeptHigh("ledmode_p0", "bus_out_en")'
        BY <4>1, StaysKept
      <4>4. Passed(5)' => k = 5 \/ Passed(5)
        BY <2>6, <3>2, PowerPasses
      <4> QED BY <1>1, <4>2, <4>3, <4>4 DEF KeptInv
    <3>5. Passed(6)' => KeptHigh("output_p0", "bus_out_en")'
      <4>1. IF k = 6 THEN "bus_out_en" \in regs'["output_p0"] ELSE Stays("output_p0", "bus_out_en")
        BY <1>1, <3>1, <3>2, PowerLands
      <4>2. k = 6 => KeptHigh("output_p0", "bus_out_en")'
        BY <4>1 DEF KeptHigh
      <4>3. k # 6 /\ KeptHigh("output_p0", "bus_out_en") => KeptHigh("output_p0", "bus_out_en")'
        BY <4>1, StaysKept
      <4>4. Passed(6)' => k = 6 \/ Passed(6)
        BY <2>6, <3>2, PowerPasses
      <4> QED BY <1>1, <4>2, <4>3, <4>4 DEF KeptInv
    <3>6. Passed(7)' => KeptLow("config_p0", "bus_out_en")'
      <4>1. IF k = 7 THEN "bus_out_en" \notin regs'["config_p0"] ELSE Stays("config_p0", "bus_out_en")
        BY <1>1, <3>1, <3>2, PowerLands
      <4>2. k = 7 => KeptLow("config_p0", "bus_out_en")'
        BY <4>1 DEF KeptLow
      <4>3. k # 7 /\ KeptLow("config_p0", "bus_out_en") => KeptLow("config_p0", "bus_out_en")'
        BY <4>1, StaysKept
      <4>4. Passed(7)' => k = 7 \/ Passed(7)
        BY <2>6, <3>2, PowerPasses
      <4> QED BY <1>1, <4>2, <4>3, <4>4 DEF KeptInv
    <3>7. inOrder' /\ Passed(1)' => KeptHigh("ledmode_p1", "boost_en")'
      <4>1. IF k = 1 THEN "boost_en" \in regs'["ledmode_p1"] ELSE Stays("ledmode_p1", "boost_en")
        BY <1>1, <3>1, <3>2, PowerLands
      <4>2. k = 1 => KeptHigh("ledmode_p1", "boost_en")'
        BY <4>1 DEF KeptHigh
      <4>3. k # 1 /\ KeptHigh("ledmode_p1", "boost_en") => KeptHigh("ledmode_p1", "boost_en")'
        BY <4>1, StaysKept
      <4>4. Passed(1)' => k = 1 \/ Passed(1)
        BY <2>6, <3>2, PowerPasses
      <4> QED BY <1>1, <4>2, <4>3, <4>4 DEF KeptInv
    <3>8. inOrder' /\ Passed(2)' => KeptHigh("output_p1", "boost_en")'
      <4>1. IF k = 2 THEN "boost_en" \in regs'["output_p1"] ELSE Stays("output_p1", "boost_en")
        BY <1>1, <3>1, <3>2, PowerLands
      <4>2. k = 2 => KeptHigh("output_p1", "boost_en")'
        BY <4>1 DEF KeptHigh
      <4>3. k # 2 /\ KeptHigh("output_p1", "boost_en") => KeptHigh("output_p1", "boost_en")'
        BY <4>1, StaysKept
      <4>4. Passed(2)' => k = 2 \/ Passed(2)
        BY <2>6, <3>2, PowerPasses
      <4> QED BY <1>1, <4>2, <4>3, <4>4 DEF KeptInv
    <3>9. inOrder' /\ Passed(3)' => KeptLow("config_p1", "boost_en")'
      <4>1. IF k = 3 THEN "boost_en" \notin regs'["config_p1"] ELSE Stays("config_p1", "boost_en")
        BY <1>1, <3>1, <3>2, PowerLands
      <4>2. k = 3 => KeptLow("config_p1", "boost_en")'
        BY <4>1 DEF KeptLow
      <4>3. k # 3 /\ KeptLow("config_p1", "boost_en") => KeptLow("config_p1", "boost_en")'
        BY <4>1, StaysKept
      <4>4. Passed(3)' => k = 3 \/ Passed(3)
        BY <2>6, <3>2, PowerPasses
      <4> QED BY <1>1, <4>2, <4>3, <4>4 DEF KeptInv
    <3> QED BY <2>2, <2>3, <2>4, <3>3, <3>4, <3>5, <3>6, <3>7, <3>8, <3>9 DEF KeptInv
  <2> QED BY <1>4, <2>5, <2>6
<1> QED BY <1>3, <1>4 DEF Step

LEMMA KeptBringup ==
  ASSUME ChipTypes, KeptInv, Step("bringup")
  PROVE  KeptInv'
<1>1. /\ UNCHANGED inOrder /\ routine'["power"] = routine["power"] /\ failed'["power"] = failed["power"]
      /\ op'["power"] = op["power"] /\ Running("bringup")
  BY StepFrame DEF Tasks
<1>2. \A n : Passed(n)' = Passed(n)
  BY <1>1 DEF Passed
<1>3. ~inOrder
  BY <1>1, Routines DEF KeptInv, Running
<1>4. CASE ReadReg("bringup")
  BY <1>4, ReadFrame DEF KeptInv, InStage, Passed, KeptHigh, KeptLow, Tasks
<1>5. CASE AccessFails("bringup") \/ WriteReg("bringup")
  <2>1. Lands("bringup") \/ UNCHANGED <<regs, lost>>
    BY <1>5, FailFrame, WriteFrame DEF Tasks
  <2>2. /\ Passed(4)' => KeptHigh("gcr", "p0_push_pull")'
        /\ Passed(5)' => KeptHigh("ledmode_p0", "bus_out_en")'
        /\ Passed(6)' => KeptHigh("output_p0", "bus_out_en")'
        /\ Passed(7)' => KeptLow("config_p0", "bus_out_en")'
    <3>1. /\ Stays("gcr", "p0_push_pull") /\ Stays("ledmode_p0", "bus_out_en")
          /\ Stays("output_p0", "bus_out_en") /\ Stays("config_p0", "bus_out_en")
      BY <1>1, <2>1, BringupLands, NothingLands
    <3>2. /\ KeptHigh("gcr", "p0_push_pull") => KeptHigh("gcr", "p0_push_pull")'
          /\ KeptHigh("ledmode_p0", "bus_out_en") => KeptHigh("ledmode_p0", "bus_out_en")'
          /\ KeptHigh("output_p0", "bus_out_en") => KeptHigh("output_p0", "bus_out_en")'
          /\ KeptLow("config_p0", "bus_out_en") => KeptLow("config_p0", "bus_out_en")'
      BY <3>1, StaysKept
    <3> QED BY <1>2, <3>2 DEF KeptInv
  <2>3. /\ InStage({"backlight", "adc", "done"})' => KeptHigh("output_p0", "touch_rst")'
        /\ InStage({"adc", "done"})' => "dldo1" \in regs'.ldo_en
    <3>1. CASE AccessFails("bringup")
      <4>1. ~InStage({"backlight", "adc", "done"})' /\ ~InStage({"adc", "done"})'
        BY <3>1, FailFrame DEF Tasks, InStage
      <4> QED BY <4>1
    <3>2. CASE WriteReg("bringup")
      <4>1. PICK r, k : routine["bringup"] = r /\ op["bringup"] = k
        OBVIOUS
      <4>2. Lands("bringup") /\ failed' = failed
        BY <3>2, WriteFrame DEF Tasks
      <4>3. /\ IF (r = "init" /\ k = 1) \/ (r = "touch" /\ k = 2) THEN "touch_rst" \in regs'.output_p0
               ELSE (r = "touch" /\ k = 1) \/ Stays("output_p0", "touch_rst")
            /\ IF r = "backlight" /\ k = 2 THEN "dldo1" \in regs'.ldo_en ELSE regs'.ldo_en = regs.ldo_en
        BY <1>1, <4>1, <4>2, BringupLands
      <4>4. \/ routine'["bringup"] = r
            \/ r = "init" /\ k = 6 /\ routine'["bringup"] = "lcd"
            \/ r = "lcd" /\ k = 2 /\ routine'["bringup"] = "touch"
            \/ r = "touch" /\ k = 2 /\ routine'["bringup"] = "backlight"
            \/ r = "backlight" /\ k = 2 /\ routine'["bringup"] \in {"adc", "done"}
            \/ r = "adc" /\ k = 1 /\ routine'["bringup"] = "done"
        BY <3>2, <4>1, BringupOnward
      <4>5. InStage({"backlight", "adc", "done"})' => KeptHigh("output_p0", "touch_rst")'
        <5>1. CASE r = "touch"
          <6>1. InStage({"backlight", "adc", "done"})' => k = 2
            BY <4>4, <5>1 DEF InStage
          <6> QED BY <4>3, <5>1, <6>1 DEF KeptHigh
        <5>2. CASE r \notin {"init", "touch"}
          <6>1. Stays("output_p0", "touch_rst")
            BY <4>3, <5>2
          <6>2. InStage({"backlight", "adc", "done"})' => InStage({"backlight", "adc", "done"})
            BY <4>1, <4>2, <4>4, <5>2 DEF InStage
          <6> QED BY <6>1, <6>2, StaysKept DEF KeptInv
        <5>3. CASE r = "init"
          BY <4>4, <5>3 DEF InStage
        <5> QED BY <5>1, <5>2, <5>3
      <4>6. InStage({"adc", "done"})' => "dldo1" \in regs'.ldo_en
        <5>1. CASE r = "backlight"
          BY <4>3, <4>4, <5>1 DEF InStage
        <5>2. CASE r # "backlight"
          BY <4>1, <4>2, <4>3, <4>4, <5>2 DEF InStage, KeptInv
        <5> QED BY <5>1, <5>2
      <4> QED BY <4>5, <4>6
    <3> QED BY <1>5, <3>1, <3>2
  <2> QED BY <1>1, <1>3, <2>2, <2>3 DEF KeptInv
<1> QED BY <1>4, <1>5 DEF Step

LEMMA KeptStep ==
  ASSUME ChipTypes, KeptInv, [Next]_vars
  PROVE  KeptInv'
<1>1. CASE Idle \/ UNCHANGED vars
  <2>1. UNCHANGED chipVars
    BY <1>1, IdleFrame
  <2> QED BY <2>1 DEF chipVars, KeptInv, InStage, Passed, KeptHigh, KeptLow
<1> QED BY <1>1, Steps, KeptAsk, KeptPower, KeptBringup

--------------------------------------------------------------------------------
(* The panel                                                                    *)

\* A step that leaves the bring-up where it is, and the panel's reset line or says
\* that it put it back.
LEMMA PanelStays ==
  ASSUME PanelInv, panel' = PanelAfterChips(regs'), Stays("output_p1", "lcd_rst"), Stays("config_p1", "lcd_rst"),
         routine'["bringup"] = routine["bringup"], op'["bringup"] = op["bringup"],
         failed'["bringup"] = failed["bringup"]
  PROVE  PanelInv'
<1> SUFFICES ASSUME "lcd_rst" \notin lost'.config_p1 PROVE PanelInv'
  BY DEF PanelInv
<1>1. \A stages : InStage(stages)' = InStage(stages)
  BY DEF InStage
<1>2. /\ "lcd_rst" \notin lost.config_p1
      /\ ("lcd_rst" \in regs'.config_p1) = ("lcd_rst" \in regs.config_p1)
  BY DEF Stays
<1>3. InStage({"lcd"}) \/ InStage(AfterPulse) => InStage(AfterInit)
  BY DEF InStage, AfterInit, AfterPulse
<1>4. /\ InStage(AfterInit) => "lcd_rst" \notin regs.config_p1
      /\ InStage({"lcd"}) /\ op["bringup"] = 2 =>
           panel # "unknown" /\ ("lcd_rst" \notin regs.output_p1 => panel = "held")
      /\ InStage(AfterPulse) =>
           /\ panel # "unknown" /\ ("lcd_rst" \in regs.output_p1 => panel # "held")
           /\ KeptHigh("output_p1", "lcd_rst")
  BY <1>2 DEF PanelInv
<1>5. InStage(AfterInit)' => "lcd_rst" \notin regs'.config_p1
  BY <1>1, <1>2, <1>4
<1>6. InStage({"lcd"})' /\ op'["bringup"] = 2 =>
        panel' # "unknown" /\ ("lcd_rst" \notin regs'.output_p1 => panel' = "held")
  BY <1>1, <1>3, <1>4, <1>5 DEF PanelAfterChips
<1>7. InStage(AfterPulse)' =>
        /\ panel' # "unknown" /\ ("lcd_rst" \in regs'.output_p1 => panel' # "held")
        /\ KeptHigh("output_p1", "lcd_rst")'
  BY <1>1, <1>3, <1>4, <1>5, StaysKept DEF PanelAfterChips
<1> QED BY <1>5, <1>6, <1>7 DEF PanelInv

LEMMA PanelIdle ==
  ASSUME ChipTypes, DisplayInv, PanelInv, Idle \/ UNCHANGED vars
  PROVE  PanelInv'
<1>1. UNCHANGED chipVars
  BY IdleFrame
<1>2. \A stages : InStage(stages)' = InStage(stages)
  BY <1>1 DEF InStage, chipVars
<1>3. InStage({"lcd"}) \/ InStage(AfterPulse) => board # "fire27"
  BY DEF InStage, DisplayInv, AfterPulse
<1>4. board # "fire27" => panel' = panel \/ (panel = "reset" /\ panel' = "ready")
  BY DEF Idle, Waited, MakePins, InitPanel, InitFails, FinishBus, vars
<1>5. UNCHANGED <<regs, lost, op>>
  BY <1>1 DEF chipVars
<1> QED BY <1>2, <1>3, <1>4, <1>5 DEF PanelInv, KeptHigh

\* The bring-up's own accesses, and where they leave it.
LEMMA PanelWrite ==
  ASSUME ChipTypes, PanelInv, WriteReg("bringup"), panel' = PanelAfterChips(regs')
  PROVE  PanelInv'
<1> SUFFICES ASSUME "lcd_rst" \notin lost'.config_p1 PROVE PanelInv'
  BY DEF PanelInv
<1>1. PICK r, k : routine["bringup"] = r /\ op["bringup"] = k
  OBVIOUS
<1>2. Lands("bringup") /\ failed' = failed /\ Running("bringup")
  BY WriteFrame DEF Tasks, WriteReg
<1>3. \/ r = "init" /\ k \in 1..6
      \/ r \in {"lcd", "touch", "backlight"} /\ k \in 1..2
      \/ r = "adc" /\ k = 1
  BY <1>1, <1>2, BringupRuns
<1>4. IF (r = "init" /\ k = 5) \/ (r = "lcd" /\ k = 2)
      THEN regs'.output_p1 = {"cam_rst", "lcd_rst"} /\ lost'.output_p1 = {}
      ELSE IF r = "lcd" /\ k = 1 THEN regs'.output_p1 = {"cam_rst"} /\ lost'.output_p1 = {}
      ELSE Stays("output_p1", "lcd_rst")
  BY <1>1, <1>2, BringupLands
<1>5. IF r = "init" /\ k = 6 THEN regs'.config_p1 = P1 \ {"cam_rst", "lcd_rst"} /\ lost'.config_p1 = {}
      ELSE Stays("config_p1", "lcd_rst")
  BY <1>1, <1>2, BringupLands
<1>6. \/ routine'["bringup"] = r /\ op'["bringup"] = k + 1
      \/ /\ op'["bringup"] = 1
         /\ \/ r = "init" /\ k = 6 /\ routine'["bringup"] = "lcd"
            \/ r = "lcd" /\ k = 2 /\ routine'["bringup"] = "touch"
            \/ r = "touch" /\ k = 2 /\ routine'["bringup"] = "backlight"
            \/ r = "backlight" /\ k = 2 /\ routine'["bringup"] \in {"adc", "done"}
            \/ r = "adc" /\ k = 1 /\ routine'["bringup"] = "done"
  BY <1>1, BringupOnward
<1>7. \A stages : /\ InStage(stages) = (r \in stages /\ ~failed["bringup"])
                  /\ InStage(stages)' = (routine'["bringup"] \in stages /\ ~failed["bringup"])
  BY <1>1, <1>2 DEF InStage
<1>8. CASE r = "init"
  <2>1. CASE k # 6
    <3>1. routine'["bringup"] = "init"
      BY <1>6, <1>8, <2>1
    <3>2. ~InStage(AfterInit)' /\ ~InStage({"lcd"})' /\ ~InStage(AfterPulse)'
      BY <1>7, <3>1 DEF AfterInit, AfterPulse
    <3> QED BY <3>2 DEF PanelInv
  <2>2. CASE k = 6
    <3>1. "lcd_rst" \notin regs'.config_p1
      BY <1>5, <1>8, <2>2
    <3>2. routine'["bringup"] = "init" \/ (routine'["bringup"] = "lcd" /\ op'["bringup"] = 1)
      BY <1>6, <1>8
    <3>3. ~InStage(AfterPulse)'
      BY <1>7, <3>2 DEF AfterPulse
    <3>4. InStage({"lcd"})' => routine'["bringup"] = "lcd"
      BY <1>7
    <3>5. ~(InStage({"lcd"})' /\ op'["bringup"] = 2)
      BY <3>2, <3>4
    <3> QED BY <3>1, <3>3, <3>5 DEF PanelInv
  <2> QED BY <2>1, <2>2
<1>9. ASSUME r # "init"
      PROVE  /\ "lcd_rst" \notin lost.config_p1
             /\ InStage(AfterInit)' => "lcd_rst" \notin regs.config_p1 /\ "lcd_rst" \notin regs'.config_p1
  <2>1. Stays("config_p1", "lcd_rst")
    BY <1>5, <1>9
  <2>2. InStage(AfterInit)' => InStage(AfterInit)
    BY <1>3, <1>7, <1>9 DEF AfterInit
  <2>3. "lcd_rst" \notin lost.config_p1 /\ ("lcd_rst" \in regs'.config_p1) = ("lcd_rst" \in regs.config_p1)
    BY <2>1 DEF Stays
  <2> QED BY <2>2, <2>3 DEF PanelInv
<1>10. CASE r = "lcd" /\ k = 1
  <2>1. regs'.output_p1 = {"cam_rst"}
    BY <1>4, <1>10
  <2>2. routine'["bringup"] = "lcd"
    BY <1>6, <1>10
  <2>3. ~InStage(AfterPulse)'
    BY <1>7, <2>2 DEF AfterPulse
  <2>4. InStage({"lcd"})' => InStage(AfterInit)'
    BY <1>7, <2>2 DEF AfterInit
  <2>5. InStage({"lcd"})' => panel' = "held"
    BY <1>9, <1>10, <2>1, <2>4 DEF PanelAfterChips
  <2> QED BY <1>9, <1>10, <2>3, <2>5 DEF PanelInv
<1>11. CASE r = "lcd" /\ k = 2
  <2>1. regs'.output_p1 = {"cam_rst", "lcd_rst"}
    BY <1>4, <1>11
  <2>2. routine'["bringup"] = "touch" \/ (routine'["bringup"] = "lcd" /\ op'["bringup"] = 3)
    BY <1>6, <1>11
  <2>3. ~(InStage({"lcd"})' /\ op'["bringup"] = 2)
    <3>1. InStage({"lcd"})' => routine'["bringup"] = "lcd"
      BY <1>7
    <3> QED BY <2>2, <3>1
  <2>4. InStage(AfterPulse)' => panel # "unknown"
    <3>1. InStage(AfterPulse)' => InStage({"lcd"})
      BY <1>7, <1>11
    <3> QED BY <1>1, <1>9, <1>11, <3>1 DEF PanelInv
  <2>5. panel' = IF panel = "held" THEN "reset" ELSE panel
    BY <2>1 DEF PanelAfterChips
  <2>6. KeptHigh("output_p1", "lcd_rst")'
    BY <2>1 DEF KeptHigh
  <2> QED BY <1>9, <1>11, <2>3, <2>4, <2>5, <2>6 DEF PanelInv
<1>12. CASE r \in {"touch", "backlight", "adc"}
  <2>1. Stays("output_p1", "lcd_rst")
    BY <1>4, <1>12
  <2>2. routine'["bringup"] \in AfterPulse
    BY <1>6, <1>12 DEF AfterPulse
  <2>3. ~InStage({"lcd"})'
    BY <1>7, <2>2 DEF AfterPulse
  <2>4. InStage(AfterPulse)' => /\ panel # "unknown" /\ ("lcd_rst" \in regs.output_p1 => panel # "held")
                                /\ KeptHigh("output_p1", "lcd_rst")
    <3>1. InStage(AfterPulse)' => InStage(AfterPulse)
      BY <1>7, <1>12 DEF AfterPulse
    <3> QED BY <1>9, <1>12, <3>1 DEF PanelInv
  <2>5. InStage(AfterPulse)' => InStage(AfterInit)'
    BY <1>7 DEF AfterPulse, AfterInit
  <2>6. InStage(AfterPulse)' => /\ panel' # "unknown" /\ ("lcd_rst" \in regs'.output_p1 => panel' # "held")
                                /\ KeptHigh("output_p1", "lcd_rst")'
    BY <2>1, <2>4, StaysKept DEF PanelAfterChips
  <2> QED BY <1>9, <1>12, <2>3, <2>6 DEF PanelInv
<1> QED BY <1>3, <1>8, <1>10, <1>11, <1>12

LEMMA PanelStep ==
  ASSUME ChipTypes, DisplayInv, PanelInv, [Next]_vars
  PROVE  PanelInv'
<1>1. CASE Idle \/ UNCHANGED vars
  BY <1>1, PanelIdle
<1>2. CASE /\ panel' = PanelAfterChips(regs')
           /\ AskFor5v \/ ReadVbus \/ ReadVbatHigh \/ ReadVbatLow \/ VbatFails
  <2>1. UNCHANGED <<regs, lost>>
    BY <1>2, AskFrame
  <2> QED BY <1>2, <2>1, AskFrame, NothingLands, PanelStays
<1>3. CASE panel' = PanelAfterChips(regs') /\ Step("power")
  <2>1. /\ routine'["bringup"] = routine["bringup"] /\ op'["bringup"] = op["bringup"]
        /\ failed'["bringup"] = failed["bringup"] /\ Running("power")
    BY <1>3, StepFrame DEF Tasks
  <2>2. Lands("power") \/ UNCHANGED <<regs, lost>>
    BY <1>3, ReadFrame, FailFrame, WriteFrame DEF Tasks, Step
  <2>3. Stays("output_p1", "lcd_rst") /\ Stays("config_p1", "lcd_rst")
    BY <2>1, <2>2, PowerLands, NothingLands
  <2> QED BY <1>3, <2>1, <2>3, PanelStays
<1>4. CASE panel' = PanelAfterChips(regs') /\ Step("bringup")
  <2>1. CASE ReadReg("bringup")
    <3>1. UNCHANGED <<regs, routine, op, failed, lost>>
      BY <2>1, ReadFrame DEF Tasks
    <3> QED BY <1>4, <3>1, NothingLands, PanelStays
  <2>2. CASE AccessFails("bringup")
    <3>1. ~InStage(AfterInit)' /\ ~InStage({"lcd"})' /\ ~InStage(AfterPulse)'
      BY <2>2, FailFrame DEF InStage, Tasks, AfterInit, AfterPulse
    <3> QED BY <3>1 DEF PanelInv
  <2>3. CASE WriteReg("bringup")
    BY <1>4, <2>3, PanelWrite
  <2> QED BY <1>4, <2>1, <2>2, <2>3 DEF Step
<1> QED BY <1>1, <1>2, <1>3, <1>4, Steps

--------------------------------------------------------------------------------
(* The display                                                                  *)

LEMMA DisplayIdle ==
  ASSUME ChipTypes, PanelInv, DisplayInv, Idle \/ UNCHANGED vars
  PROVE  DisplayInv'
<1>1. UNCHANGED chipVars
  BY IdleFrame
<1>2. UNCHANGED <<board, app, routine, failed>> /\ WithCard' = WithCard /\ LcdRstLost' = LcdRstLost
  BY <1>1 DEF chipVars, boardVars, WithCard, LcdRstLost
<1>3. CASE UNCHANGED vars
  BY <1>2, <1>3 DEF vars, DisplayInv, TypeOK
<1>4. CASE Waited
  <2>1. /\ display = "waiting" /\ display' = "pins" /\ UNCHANGED <<panel, pins>>
        /\ hurried' = (board = "cores3" /\ routine["bringup"] # "done")
    BY <1>4 DEF Waited
  <2>2. hurried' \in BOOLEAN /\ (~hurried' => board # "cores3" \/ routine["bringup"] = "done")
    BY <2>1
  <2>3. TypeOK'
    BY <2>1, <2>2 DEF DisplayInv, TypeOK
  <2>4. ~hurried' => board = "fire27" \/ routine["bringup"] = "done"
    BY <2>2 DEF ChipTypes
  <2> QED BY <1>2, <2>1, <2>3, <2>4 DEF DisplayInv
<1>5. CASE MakePins
  <2>1. /\ display = "pins" /\ display' = "init" /\ hurried' = hurried
        /\ panel' \in {panel, "held"} /\ pins' \subseteq {"display_cs", "card_cs", "gpio35"}
        /\ "gpio35" \in pins' => board = "cores3"
    BY <1>5 DEF MakePins, CardPins, DisplayOnlyPins
  <2> QED BY <1>2, <2>1 DEF DisplayInv, TypeOK
<1>6. CASE InitPanel
  <2>1. /\ display = "init" /\ display' = "finish" /\ hurried' = hurried
        /\ panel' \in {panel, "ready"} /\ pins' \subseteq pins \cup {"gpio35"}
        /\ "gpio35" \in pins' => board = "cores3" \/ "gpio35" \in pins
        /\ board = "fire27" \/ panel = "reset" => panel' = "ready"
    BY <1>6 DEF InitPanel
  <2>2. ASSUME board = "cores3" => ~hurried /\ ~failed["bringup"] /\ ~LcdRstLost
        PROVE  panel' = "ready"
    <3>1. CASE board = "fire27"
      BY <2>1, <3>1
    <3>2. CASE board = "cores3"
      <4>1. routine["bringup"] = "done"
        BY <2>1, <2>2, <3>2 DEF DisplayInv
      <4>2. panel \in {"reset", "ready"}
        <5>1. InStage(AfterPulse) /\ "lcd_rst" \notin lost.config_p1 \cup lost.output_p1
          BY <2>2, <3>2, <4>1 DEF InStage, AfterPulse, LcdRstLost
        <5>2. panel # "unknown" /\ panel # "held"
          BY <5>1 DEF PanelInv, KeptHigh
        <5> QED BY <5>2 DEF DisplayInv, TypeOK
      <4> QED BY <2>1, <4>2
    <3> QED BY <3>1, <3>2 DEF ChipTypes
  <2>3. display' \in {"finish", "up"} /\ (board' = "cores3" => ~hurried' /\ ~failed'["bringup"] /\ ~LcdRstLost')
          => panel' = "ready"
    BY <1>2, <2>1, <2>2
  <2>4. TypeOK'
    BY <2>1 DEF DisplayInv, TypeOK
  <2>5. "backlight" \notin pins'
    BY <2>1 DEF DisplayInv
  <2> QED BY <1>2, <2>1, <2>3, <2>4, <2>5 DEF DisplayInv
<1>7. CASE InitFails
  <2>1. /\ display \in {"pins", "init"} /\ display' = "failed" /\ UNCHANGED <<panel, hurried>>
        /\ pins' \subseteq pins \cup {"gpio35"}
        /\ "gpio35" \in pins' => board = "cores3" \/ "gpio35" \in pins
    BY <1>7 DEF InitFails
  <2>2. TypeOK'
    BY <2>1 DEF DisplayInv, TypeOK
  <2>3. "backlight" \notin pins'
    BY <2>1 DEF DisplayInv
  <2> QED BY <1>2, <2>1, <2>2, <2>3 DEF DisplayInv
<1>8. CASE FinishBus
  <2>1. /\ display = "finish" /\ display' = "up" /\ UNCHANGED <<panel, hurried>>
        /\ pins' \subseteq pins \cup {"backlight"}
        /\ "backlight" \in pins' => board = "fire27" \/ "backlight" \in pins
        /\ board = "cores3" /\ WithCard => "gpio35" \notin pins'
    BY <1>8 DEF FinishBus, Lit
  <2>2. TypeOK'
    BY <2>1 DEF DisplayInv, TypeOK
  <2>3. "backlight" \notin pins
    BY <2>1 DEF DisplayInv
  <2>4. "gpio35" \in pins' => board = "cores3"
    BY <2>1 DEF DisplayInv
  <2>5. board = "cores3" \/ board = "fire27"
    BY DEF ChipTypes
  <2> QED BY <1>2, <2>1, <2>2, <2>3, <2>4, <2>5 DEF DisplayInv
<1> QED BY <1>3, <1>4, <1>5, <1>6, <1>7, <1>8 DEF Idle

LEMMA DisplayChips ==
  ASSUME ChipTypes, DisplayInv, PanelInv', board = "cores3", UNCHANGED <<board, app, display, pins, hurried>>,
         panel' = PanelAfterChips(regs'), failed["bringup"] => failed'["bringup"],
         routine["bringup"] = "done" =>
           routine'["bringup"] = "done" /\ (LcdRstLost => LcdRstLost')
  PROVE  DisplayInv'
<1>1. TypeOK'
  BY DEF DisplayInv, TypeOK, PanelAfterChips
<1>2. display' # "waiting" /\ ~hurried' => routine'["bringup"] = "done"
  BY DEF DisplayInv
<1>3. ASSUME display' \in {"finish", "up"}, ~hurried', ~failed'["bringup"], ~LcdRstLost'
      PROVE  panel' = "ready"
  <2>1. panel = "ready"
    BY <1>3 DEF DisplayInv
  <2>2. InStage(AfterPulse)'
    BY <1>2, <1>3 DEF InStage, AfterPulse
  <2>3. "lcd_rst" \in regs'.output_p1
    BY <1>3, <2>2 DEF PanelInv, KeptHigh, LcdRstLost
  <2> QED BY <2>1, <2>3 DEF PanelAfterChips
<1>4. "backlight" \notin pins
  BY DEF DisplayInv
<1>5. WithCard' = WithCard
  BY DEF WithCard
<1> QED BY <1>1, <1>2, <1>3, <1>4, <1>5 DEF DisplayInv

LEMMA DisplayStep ==
  ASSUME ChipTypes, DisplayInv, PanelInv, PanelInv', [Next]_vars
  PROVE  DisplayInv'
<1>1. CASE Idle \/ UNCHANGED vars
  BY <1>1, DisplayIdle
<1>2. CASE /\ board = "cores3" /\ panel' = PanelAfterChips(regs') /\ UNCHANGED <<display, pins, hurried>>
           /\ \/ AskFor5v \/ ReadVbus \/ ReadVbatHigh \/ ReadVbatLow \/ VbatFails
              \/ Step("power") \/ Step("bringup")
  <2>1. UNCHANGED boardVars
    BY <1>2, AskFrame, StepFrame DEF Tasks
  <2>2. CASE AskFor5v \/ ReadVbus \/ ReadVbatHigh \/ ReadVbatLow \/ VbatFails
    <3>1. UNCHANGED <<failed, lost>> /\ routine'["bringup"] = routine["bringup"]
      BY <2>2, AskFrame
    <3> QED BY <1>2, <2>1, <3>1, DisplayChips DEF boardVars, LcdRstLost
  <2>3. CASE Step("power")
    <3>1. routine'["bringup"] = routine["bringup"] /\ failed'["bringup"] = failed["bringup"] /\ Running("power")
      BY <2>3, StepFrame DEF Tasks
    <3>2. Lands("power") \/ UNCHANGED <<regs, lost>>
      BY <2>3, ReadFrame, FailFrame, WriteFrame DEF Tasks, Step
    <3>3. Stays("output_p1", "lcd_rst") /\ Stays("config_p1", "lcd_rst")
      BY <3>1, <3>2, PowerLands, NothingLands
    <3>4. LcdRstLost => LcdRstLost'
      BY <3>3 DEF Stays, LcdRstLost
    <3> QED BY <1>2, <2>1, <3>1, <3>4, DisplayChips DEF boardVars
  <2>4. CASE Step("bringup")
    <3>1. routine["bringup"] # "done"
      BY <2>4, StepFrame, Routines DEF Tasks, Running
    <3>2. failed["bringup"] => failed'["bringup"]
      <4>1. CASE ReadReg("bringup") \/ WriteReg("bringup")
        BY <4>1, ReadFrame, WriteFrame DEF Tasks
      <4>2. CASE AccessFails("bringup")
        BY <4>2, FailFrame DEF Tasks
      <4> QED BY <2>4, <4>1, <4>2 DEF Step
    <3> QED BY <1>2, <2>1, <3>1, <3>2, DisplayChips DEF boardVars
  <2> QED BY <1>2, <2>2, <2>3, <2>4
<1> QED BY <1>1, <1>2, Steps

--------------------------------------------------------------------------------
(* The theorems                                                                 *)

IInv == ChipTypes /\ GuardInv /\ ConfigInv /\ KeptInv /\ PanelInv /\ DisplayInv

LEMMA InvInit == Init => IInv
<1> SUFFICES ASSUME Init PROVE IInv
  OBVIOUS
<1>1. ChipTypes
  BY TypesInit
<1>2. /\ board \in {"cores3", "fire27"} /\ vbus = TRUE /\ spared = FALSE /\ inOrder = FALSE
      /\ val = [t \in Tasks |-> Unread] /\ display = "waiting" /\ panel = "unknown" /\ pins = {} /\ hurried = FALSE
  BY DEF Init, ChipInit
<1>3. /\ routine["bringup"] \in {"init", "absent"} /\ routine["power"] \in {"idle", "absent"}
      /\ board = "fire27" => routine["bringup"] = "absent"
  BY DEF Init, ChipInit, Tasks
<1>4. ~PastGuard /\ (\A n : ~Passed(n)) /\ \A stages : InStage(stages) => routine["bringup"] \in stages
  BY <1>3 DEF PastGuard, Passed, InStage
<1>5. GuardInv
  BY <1>2, <1>4 DEF GuardInv
<1>6. ConfigInv
  <2>1. regs = [r \in Registers |-> IF r \in {"config_p0", "config_p1"} THEN Bits[r] ELSE {}]
    BY DEF Init, ChipInit
  <2>2. regs.config_p0 = P0 /\ regs.config_p1 = P1
    BY <2>1, Names DEF RegNames, Bits
  <2>3. Undriven(regs.config_p0) /\ "boost_en" \in regs.config_p1
    BY <2>2 DEF Undriven, P0, P1
  <2> QED BY <1>2, <2>3 DEF ConfigInv
<1>7. /\ ~InStage(AfterInit) /\ ~InStage({"lcd"}) /\ ~InStage(AfterPulse)
      /\ ~InStage({"backlight", "adc", "done"}) /\ ~InStage({"adc", "done"})
  BY <1>3, <1>4 DEF AfterInit, AfterPulse
<1>8. KeptInv /\ PanelInv
  BY <1>2, <1>4, <1>7 DEF KeptInv, PanelInv
<1>9. DisplayInv
  BY <1>2, <1>3 DEF DisplayInv, TypeOK
<1> QED BY <1>1, <1>5, <1>6, <1>8, <1>9 DEF IInv

LEMMA InvStep == IInv /\ [Next]_vars => IInv'
<1> SUFFICES ASSUME IInv, [Next]_vars PROVE IInv'
  OBVIOUS
<1>1. ChipTypes /\ GuardInv /\ ConfigInv /\ KeptInv /\ PanelInv /\ DisplayInv
  BY DEF IInv
<1>2. ChipTypes' /\ GuardInv' /\ ConfigInv' /\ KeptInv' /\ PanelInv'
  BY <1>1, TypesStep, GuardStep, ConfigStep, KeptStep, PanelStep
<1>3. DisplayInv'
  BY <1>1, <1>2, DisplayStep
<1> QED BY <1>2, <1>3 DEF IInv

\* Whatever the interleaving, the failures and the voltages, the parts of the
\* invariant hold of every state of the two tasks, the chips and the display.
THEOREM BringupInvariant == Spec => []IInv
BY InvInit, InvStep, PTL DEF Spec

\* OnlyAskedFor: no interleaving of power_display_reset and enable_bus_5v, no
\* failed access and no stale read drives USB_OTG_EN, or the 5 V switch and boost
\* before the guard has let the application through, for a reason it has read.
THEOREM NothingElseDriven == Spec => []OnlyAskedFor
<1>1. IInv => OnlyAskedFor
  <2> SUFFICES ASSUME IInv PROVE OnlyAskedFor
    OBVIOUS
  <2>1. P0 \ regs.config_p0 \subseteq {"touch_rst", "bus_out_en"}
    BY DEF IInv, ConfigInv, Undriven
  <2>2. ~spared \/ routine["power"] \in Guard \cup {"idle", "refused"} => ~PastGuard
    BY DEF IInv, GuardInv, PastGuard, Guard
  <2> QED BY <2>1, <2>2 DEF IInv, ConfigInv, Undriven, OnlyAskedFor
<1> QED BY <1>1, BringupInvariant, PTL

\* BothKept: what the two tasks did to the shared registers is there when both are
\* through, but for the very bits that a write put back to what it had read.
THEOREM BothTasksKept == Spec => []BothKept
<1>1. IInv => BothKept
  <2> SUFFICES ASSUME IInv, routine["bringup"] = "done", routine["power"] = "done"
               PROVE  /\ ~failed["power"] =>
                           /\ KeptHigh("output_p0", "bus_out_en") /\ KeptLow("config_p0", "bus_out_en")
                           /\ KeptHigh("ledmode_p0", "bus_out_en") /\ KeptHigh("gcr", "p0_push_pull")
                      /\ ~failed["bringup"] => KeptHigh("output_p0", "touch_rst")
                      /\ ~failed["power"] /\ inOrder =>
                           /\ KeptHigh("output_p1", "boost_en") /\ KeptLow("config_p1", "boost_en")
                           /\ KeptHigh("ledmode_p1", "boost_en")
    BY DEF BothKept
  <2>1. KeptInv
    BY DEF IInv
  <2>2. ~failed["power"] => \A n : Passed(n)
    BY DEF Passed
  <2>3. ~failed["power"] => /\ Passed(1) /\ Passed(2) /\ Passed(3) /\ Passed(4)
                            /\ Passed(5) /\ Passed(6) /\ Passed(7)
    BY <2>2
  <2>4. ~failed["bringup"] => InStage({"backlight", "adc", "done"})
    BY DEF InStage
  <2> QED BY <2>1, <2>3, <2>4 DEF KeptInv
<1> QED BY <1>1, BringupInvariant, PTL

\* DisplayUp: a display that was waited for is lit, ready and not reset again; no
\* light shows a panel that is not ready, and a card finds its pad undriven.
THEOREM DisplayShows == Spec => []DisplayUp
<1>1. IInv => DisplayUp
  <2> SUFFICES ASSUME IInv PROVE DisplayUp
    OBVIOUS
  <2>1. DisplayInv /\ KeptInv /\ board \in {"cores3", "fire27"}
    BY DEF IInv, ChipTypes
  <2>2. ASSUME display = "up", ~hurried, ~failed["bringup"]
        PROVE  (LcdRstLost \/ panel = "ready") /\ (board = "cores3" => "dldo1" \in regs.ldo_en)
    <3>1. LcdRstLost \/ panel = "ready"
      BY <2>1, <2>2 DEF DisplayInv
    <3>2. board = "cores3" => InStage({"adc", "done"})
      BY <2>1, <2>2 DEF DisplayInv, InStage
    <3> QED BY <2>1, <2>2, <3>1, <3>2 DEF KeptInv
  <2>3. "backlight" \in pins => panel = "ready"
    BY <2>1 DEF DisplayInv
  <2>4. display = "up" /\ WithCard => "gpio35" \notin pins
    BY <2>1 DEF DisplayInv
  <2> QED BY <2>2, <2>3, <2>4 DEF DisplayUp
<1> QED BY <1>1, BringupInvariant, PTL
================================================================================
