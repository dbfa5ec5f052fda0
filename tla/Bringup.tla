-------------------------------- MODULE Bringup --------------------------------
(* The display and the card's pins, brought up by the demos and by              *)
(* Spi2Parts::finish_sd (board/spi2.rs, board/display.rs,                       *)
(* examples/common/board.rs), beside the task that resets the CoreS3's panel    *)
(* through its power chips.                                                     *)
EXTENDS Expander

VARIABLES
  display,                  \* how far its bring-up is
  panel,                    \* external: what the controller has been through since power-on
  pins,                     \* outputs that are high; "gpio35": driven as DC
  hurried                   \* history: the display was not waited for

vars == <<chipVars, display, panel, pins, hurried>>

\* The card is on the bus; its DC is Gpio35Dc on the CoreS3.
WithCard == app \in {"sd", "own"}

Init ==
  /\ ChipInit
  /\ display = "waiting" /\ panel = "unknown"
  /\ pins = {} /\ hurried = FALSE

\* The expander's LCD_RST; the pulse is the hardware reset.
PanelAfterChips(r) ==
  IF "lcd_rst" \notin r.output_p1 \cup r.config_p1 THEN "held"
  ELSE IF panel = "held" THEN "reset" ELSE panel

Chips ==
  /\ board = "cores3" /\ ChipStep
  /\ panel' = PanelAfterChips(regs')
  /\ UNCHANGED <<display, pins, hurried>>

\* The demos await power_display_reset. Another task waits for it only so long,
\* so that a wedged I2C cannot keep the display dark for ever.
Waited ==
  /\ display = "waiting"
  /\ \/ board = "fire27" \/ routine["bringup"] = "done" \/ app = "own"
  /\ display' = "pins"
  /\ hurried' = (board = "cores3" /\ routine["bringup"] # "done")
  /\ UNCHANGED <<chipVars, panel, pins>>

\* What into_parts makes of the pins; into_display_only, and the demos.
CardPins == {"display_cs", "card_cs"}
DisplayOnlyPins == {"display_cs"} \cup (IF board = "cores3" THEN {"gpio35"} ELSE {})

\* The Fire27 holds its panel in reset, and its light off, until it is ready.
Lit == IF board = "fire27" THEN pins \cup {"backlight"} ELSE pins

MakePins ==
  /\ display = "pins"
  /\ display' = "init"
  /\ pins' = IF WithCard THEN CardPins ELSE DisplayOnlyPins
  /\ panel' = IF board = "fire27" THEN "held" ELSE panel
  /\ UNCHANGED <<chipVars, hurried>>

\* init_ili9342c_with_reset pulses the pin first; init_ili9342c sends a soft
\* reset to a panel that must have had the hardware one.
InitPanel ==
  /\ display = "init" /\ display' = "finish"
  /\ panel' = IF board = "fire27" \/ panel = "reset" THEN "ready" ELSE panel
  /\ pins' = IF board = "cores3" THEN pins \cup {"gpio35"} ELSE pins
  /\ UNCHANGED <<chipVars, hurried>>

\* SPI2 rejects its settings, or the panel does not take a command: the bring-up
\* returns the error, and the pins stay.
InitFails ==
  /\ display \in {"pins", "init"} /\ display' = "failed"
  /\ \/ UNCHANGED pins
     \/ display = "init" /\ board = "cores3" /\ pins' = pins \cup {"gpio35"}
  /\ UNCHANGED <<chipVars, panel, hurried>>

\* Mutant: the pad stays an output.
FinishBusKeepsPad ==
  /\ display = "finish" /\ display' = "up"
  /\ pins' = Lit
  /\ UNCHANGED <<chipVars, panel, hurried>>

\* The Fire27's light goes on; the pad the card answers on is an input again.
FinishBus ==
  /\ display = "finish" /\ display' = "up"
  /\ pins' = IF board = "cores3" /\ WithCard THEN pins \ {"gpio35"} ELSE Lit
  /\ UNCHANGED <<chipVars, panel, hurried>>

Next == Chips \/ Waited \/ MakePins \/ InitPanel \/ InitFails \/ FinishBus

Spec == Init /\ [][Next]_vars

--------------------------------------------------------------------------------
(* Properties                                                                   *)

TypeOK ==
  /\ display \in {"waiting", "pins", "init", "finish", "up", "failed"}
  /\ panel \in {"unknown", "held", "reset", "ready"}
  /\ pins \subseteq {"display_cs", "card_cs", "gpio35", "backlight"}
  /\ hurried \in BOOLEAN

LcdRstLost == "lcd_rst" \in lost.output_p1 \cup lost.config_p1

\* A display that is up shows what is drawn: its panel was reset in hardware, then
\* initialised, and nothing resets it again, if it was waited for, no access of
\* the bring-up failed and LCD_RST itself was not put back. The Fire27's light
\* shows no panel that is not ready, and a card finds its pad undriven.
DisplayUp ==
  /\ display = "up" /\ ~hurried /\ ~failed["bringup"] =>
       /\ LcdRstLost \/ panel = "ready"
       /\ board = "cores3" => "dldo1" \in regs.ldo_en
  /\ "backlight" \in pins => panel = "ready"
  /\ display = "up" /\ WithCard => "gpio35" \notin pins
================================================================================
