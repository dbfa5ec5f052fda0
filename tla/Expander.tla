-------------------------------- MODULE Expander --------------------------------
(* The CoreS3's power chips behind the shared I2C bus: the AW9523B's registers  *)
(* under power_display_reset and enable_bus_5v (driver/aw9523b.rs,              *)
(* board/cores3.rs, the guard of examples/common/board.rs), the AXP2101's       *)
(* backlight rail and its readings of battery and USB (driver/axp2101.rs). Each *)
(* register access takes the bus mutex for itself.                              *)
EXTENDS Naturals, Sequences

CONSTANTS
  FallbackTries,            \* AW9523B_FALLBACK_TRIES
  Voltages                  \* the battery's, in mV, 0 without one

ASSUME ExpanderAssumption == FallbackTries \in Nat /\ Voltages \subseteq 0..16383

VARIABLES
  board, app,               \* which board it is, and whose bring-up
  regs,                     \* the bits that are 1 in each register
  routine, op,              \* what each task runs, and the access it is at
  val,                      \* the value it has read to modify
  tries,                    \* init's failures so far
  failed,                   \* whether a task's routines have met an error
  lost,                     \* history: the bits of each register that a write put back to what was
                            \* read of them before the other task changed them
  inOrder,                  \* history: the 5 V routine began after the bring-up had ended
  vbus, high,               \* what the guard has read: USB is there; the battery's high byte
  spared                    \* history: while it read, USB was absent, or the battery high or in motion

boardVars == <<board, app>>
guardVars == <<vbus, high, spared>>
chipVars == <<boardVars, regs, routine, op, val, tries, failed, lost, inOrder, guardVars>>

Tasks == {"bringup", "power"}
P0 == {"touch_rst", "bus_out_en", "aw_rst", "usb_otg_en"}
P1 == {"cam_rst", "lcd_rst", "touch_int", "aw_int", "boost_en"}
Bits == [output_p0 |-> P0, output_p1 |-> P1, config_p0 |-> P0, config_p1 |-> P1,
         ledmode_p0 |-> P0, ledmode_p1 |-> P1, gcr |-> {"p0_push_pull"},
         dldo1_vol |-> {"3300mV"}, ldo_en |-> {"dldo1"}, adc_en |-> {"vbat"}]
Registers == DOMAIN Bits
Unread == {"unread"}

Set(reg, mask) == [kind |-> "set", reg |-> reg, mask |-> mask]
Clear(reg, mask) == [kind |-> "clear", reg |-> reg, mask |-> mask]
WriteAll(reg, mask) == [kind |-> "write", reg |-> reg, mask |-> mask]

InitOps ==
  << Set("output_p0", {"touch_rst"}), Set("ledmode_p0", {"touch_rst"}),
     Clear("config_p0", {"touch_rst"}), WriteAll("ledmode_p1", P1),
     WriteAll("output_p1", {"cam_rst", "lcd_rst"}),
     WriteAll("config_p1", P1 \ {"cam_rst", "lcd_rst"}) >>

LcdRstPulse == << WriteAll("output_p1", {"cam_rst"}),
                  WriteAll("output_p1", {"cam_rst", "lcd_rst"}) >>

TouchRstPulse == << Clear("output_p0", {"touch_rst"}), Set("output_p0", {"touch_rst"}) >>

SetDldo1 == << WriteAll("dldo1_vol", {"3300mV"}), Set("ldo_en", {"dldo1"}) >>

EnableBatteryAdc == << Set("adc_en", {"vbat"}) >>

EnableBus5v ==
  << Set("ledmode_p1", {"boost_en"}), Set("output_p1", {"boost_en"}),
     Clear("config_p1", {"boost_en"}), Set("gcr", {"p0_push_pull"}),
     Set("ledmode_p0", {"bus_out_en"}), Set("output_p0", {"bus_out_en"}),
     Clear("config_p0", {"bus_out_en"}) >>

Ops == [init |-> InitOps, lcd |-> LcdRstPulse, touch |-> TouchRstPulse,
        backlight |-> SetDldo1, adc |-> EnableBatteryAdc, bus_5v |-> EnableBus5v]
Then == [init |-> "lcd", lcd |-> "touch", touch |-> "backlight",
         backlight |-> IF app = "status" THEN "adc" ELSE "done", adc |-> "done",
         bus_5v |-> "done"]

\* The demos that show a status, draw with LVGL, or read a card; and an application
\* whose display is brought up by another task.
Apps == {"status", "lvgl", "sd", "own"}

Guard == {"vbus", "vbat_high", "vbat_low"}

\* The Fire27 has none of these chips.
ChipInit ==
  /\ board \in {"cores3", "fire27"} /\ app \in Apps
  /\ routine = IF board = "cores3" THEN [bringup |-> "init", power |-> "idle"]
                                   ELSE [t \in Tasks |-> "absent"]
  /\ regs = [r \in Registers |-> IF r \in {"config_p0", "config_p1"} THEN Bits[r] ELSE {}]
  /\ vbus = TRUE /\ high = 0 /\ spared = FALSE
  /\ op = [t \in Tasks |-> 1]
  /\ val = [t \in Tasks |-> Unread]
  /\ tries = 0
  /\ failed = [t \in Tasks |-> FALSE]
  /\ lost = [r \in Registers |-> {}] /\ inOrder = FALSE

Running(t) == routine[t] \in DOMAIN Ops

Current(t) == Ops[routine[t]][op[t]]

\* Each task runs its routines one after the other, whatever became of the last.
Proceed(t) ==
  /\ routine' = [routine EXCEPT ![t] = Then[routine[t]]]
  /\ op' = [op EXCEPT ![t] = 1]
  /\ val' = [val EXCEPT ![t] = Unread]

At(stage) == routine["power"] = stage
Power(stage) == routine' = [routine EXCEPT !["power"] = stage]

\* The application asks for the 5 V output, at any time.
AskFor5v ==
  /\ At("idle") /\ Power("vbus")
  /\ inOrder' = (routine["bringup"] = "done")
  /\ UNCHANGED <<regs, op, val, tries, failed, lost, guardVars, boardVars>>

GuardStays == <<boardVars, regs, op, val, tries, failed, lost, inOrder>>

\* Mutant: what cannot be read is absent.
ReadVbusOrAbsent ==
  /\ At("vbus") /\ Power("vbat_high")
  /\ \E usb \in BOOLEAN : /\ vbus' \in {usb, FALSE}
                          /\ spared' = (spared \/ ~usb)
  /\ UNCHANGED <<GuardStays, high>>

\* vbus_present: a reading that fails counts as USB.
ReadVbus ==
  /\ At("vbus") /\ Power("vbat_high")
  /\ \E usb \in BOOLEAN : /\ vbus' \in {usb, TRUE}
                          /\ spared' = (spared \/ ~usb)
  /\ UNCHANGED <<GuardStays, high>>

\* The ADC is off at reset, and then reads 0.
Reading(volts) == IF "vbat" \in regs.adc_en THEN volts ELSE 0

\* battery_voltage_mv: two accesses, between which the battery may change.
ReadVbatHigh ==
  /\ At("vbat_high") /\ Power("vbat_low")
  /\ \E volts \in Voltages : /\ high' = Reading(volts) \div 256
                             /\ spared' = (spared \/ volts > 3300)
  /\ UNCHANGED <<GuardStays, vbus>>

\* enable_bus_5v, the guard: battery_present || !vbus.
Decided(mv) == Power(IF mv > 3300 \/ ~vbus THEN "bus_5v" ELSE "refused")

ReadVbatLow ==
  /\ At("vbat_low")
  /\ \E volts \in Voltages : /\ Decided((high * 256) + (Reading(volts) % 256))
                             /\ spared' = (spared \/ volts > 3300 \/ Reading(volts) \div 256 # high)
  /\ vbus' = TRUE /\ high' = 0
  /\ UNCHANGED GuardStays

\* A battery that cannot be read counts as none.
VbatFails ==
  /\ At("vbat_high") \/ At("vbat_low")
  /\ Decided(0)
  /\ vbus' = TRUE /\ high' = 0
  /\ UNCHANGED <<GuardStays, spared>>

\* set_bits and clear_bits: the read, and the bus mutex is free again.
ReadReg(t) ==
  /\ Running(t)
  /\ Current(t).kind # "write" /\ val[t] = Unread
  /\ val' = [val EXCEPT ![t] = regs[Current(t).reg]]
  /\ UNCHANGED <<regs, routine, op, tries, failed, lost, inOrder, guardVars, boardVars>>

\* Mutant: what was read is not kept.
ModifiedAlone(t) == IF Current(t).kind = "clear" THEN val[t] \ Current(t).mask
                    ELSE Current(t).mask

Modified(t) ==
  CASE Current(t).kind = "write" -> Current(t).mask
    [] Current(t).kind = "set" -> val[t] \cup Current(t).mask
    [] Current(t).kind = "clear" -> val[t] \ Current(t).mask

\* The bits beside its own that a write undoes.
PutBack(t) ==
  LET c == Current(t)
  IN  {b \in Bits[c.reg] \ c.mask : (b \in val[t]) # (b \in regs[c.reg])}

Lands(t) ==
  LET c == Current(t)
  IN  /\ c.kind = "write" \/ val[t] # Unread
      /\ regs' = [regs EXCEPT ![c.reg] = Modified(t)]
      /\ lost' = [lost EXCEPT ![c.reg] = IF c.kind = "write" THEN {} ELSE (@ \ c.mask) \cup PutBack(t)]

WriteReg(t) ==
  /\ Running(t) /\ Lands(t)
  /\ IF op[t] < Len(Ops[routine[t]])
     THEN /\ op' = [op EXCEPT ![t] = op[t] + 1]
          /\ val' = [val EXCEPT ![t] = Unread]
          /\ UNCHANGED routine
     ELSE Proceed(t)
  /\ UNCHANGED <<tries, failed, inOrder, guardVars, boardVars>>

\* An access fails, as a write may also after the chip has taken it: init is
\* tried again, a few times; what else fails is logged, and the bring-up goes on
\* without it.
AccessFails(t) ==
  /\ Running(t)
  /\ Lands(t) \/ UNCHANGED <<regs, lost>>
  /\ IF routine[t] = "init" /\ tries < FallbackTries
     THEN /\ tries' = tries + 1
          /\ op' = [op EXCEPT ![t] = 1]
          /\ val' = [val EXCEPT ![t] = Unread]
          /\ UNCHANGED <<routine, failed>>
     ELSE /\ Proceed(t)
          /\ failed' = [failed EXCEPT ![t] = TRUE]
          /\ UNCHANGED tries
  /\ UNCHANGED <<inOrder, guardVars, boardVars>>

Step(t) == ReadReg(t) \/ WriteReg(t) \/ AccessFails(t)

ChipStep ==
  \/ AskFor5v \/ ReadVbus \/ ReadVbatHigh \/ ReadVbatLow \/ VbatFails
  \/ \E t \in Tasks : Step(t)

--------------------------------------------------------------------------------
(* Properties                                                                   *)

\* What was set, or cleared, is so unless it was put back.
KeptHigh(reg, bit) == bit \in regs[reg] \cup lost[reg]
KeptLow(reg, bit) == bit \notin regs[reg] \ lost[reg]

\* The SAFETY note (aw9523b.rs 23-27) and the caller's guard (aw9523b.rs 154):
\* whatever fails or is read stale, nobody drives USB_OTG_EN, nor the 5 V switch
\* and boost before they are asked for, nor against USB without a battery: one of
\* the two was otherwise while the guard looked.
OnlyAskedFor ==
  /\ P0 \ regs.config_p0 \subseteq {"touch_rst", "bus_out_en"}
  /\ ~spared \/ routine["power"] \in Guard \cup {"idle", "refused"} =>
       "bus_out_en" \in regs.config_p0 /\ "boost_en" \in regs.config_p1

\* What two tasks did to one chip holds when both are through: the 5 V switch is
\* on and the touch controller out of its reset, but for a bit that a write put
\* back. So a lost update costs no bit but one that changed between the read and
\* the write, and none that was set anew since. The boost stays on too if it came
\* second, for init and lcd_rst_pulse write port 1 whole.
BothKept ==
  /\ routine["bringup"] = "done" /\ routine["power"] = "done" =>
       /\ ~failed["power"] =>
            /\ KeptHigh("output_p0", "bus_out_en") /\ KeptLow("config_p0", "bus_out_en")
            /\ KeptHigh("ledmode_p0", "bus_out_en") /\ KeptHigh("gcr", "p0_push_pull")
       /\ ~failed["bringup"] => KeptHigh("output_p0", "touch_rst")
       /\ ~failed["power"] /\ inOrder =>
            /\ KeptHigh("output_p1", "boost_en") /\ KeptLow("config_p1", "boost_en")
            /\ KeptHigh("ledmode_p1", "boost_en")
================================================================================
