--------------------------------- MODULE HilRun --------------------------------
(* One run of m5stack-hil over a board: claim it, attach, reset, read its       *)
(* identity past console holes, ensure an image, await, capture (main.rs run,   *)
(* board.rs, flash.rs), while the board prints. Runs follow each other and may  *)
(* be killed. Waits are those Ears states: in order, each line looked at once.  *)
EXTENDS BoardLock, FirmwareIdentity, HilConfig

CONSTANTS
  Elf,                      \* the image the run asks for
  OnBoard,                  \* those a board may bear
  Dead,                     \* those that do not boot
  Commands,                 \* the command lines each process may have
  Hosts,                    \* the machines they may run on: the files each has
  Tries,                    \* CAPTURE_TRIES, VERIFY_TRIES
  MaxLines                  \* bound: lines of the application at a time

Actions == {"read_identity", "expect_image", "ensure_image", "await_boot", "capture"}

ASSUME ImagesAssumption ==
  /\ OnBoard \subseteq Images /\ Elf \in OnBoard /\ Dead \subseteq OnBoard
ASSUME CommandsAssumption ==
  \A p \in Procs : \A c \in Commands[p] :
    /\ c.flags \subseteq Actions \cup {"until"}
    /\ c.flags \cap Actions # {}
    /\ "until" \in c.flags => "capture" \in c.flags
ASSUME OtherAssumption ==
  /\ Tries \in Nat \ {0} /\ MaxLines \in Nat
  /\ None \notin Procs

\* A command line that means a board, by an id the lock accepts.
Runs(c, m) == Resolves(c.args, Hosts[m]) /\ Lockable(c.args, Hosts[m])

\* What run is called with.
Resolved(c, m) == [flags |-> c.flags, target |-> Target(c.args, Hosts[m])]

\* A process comes as far as the lock, and whatever way it names the board, it
\* finds the same one behind the same lock. One that says another id, or another
\* --out, does not (README).
ASSUME OneBoardAssumption ==
  \A m \in DOMAIN Hosts, p, q \in Procs :
    /\ \E c \in Commands[p] : Runs(c, m)
    /\ \A c \in Commands[p], d \in Commands[q] : Runs(c, m) /\ Runs(d, m) =>
         LET one == Resolved(c, m).target  other == Resolved(d, m).target
         IN  /\ LockFile(c.args, Hosts[m]) = LockFile(d.args, Hosts[m])
             /\ one.board.port = other.board.port
             /\ one.flash.chip = other.flash.chip

VARIABLES
  flash, todo, owed,        \* the image on the board, what this boot has still to print, a drop marker due
  inReset,                  \* the tty's lines hold EN low
  wire, marker,             \* printed, and not read by the run yet: lines; a drop marker
  host,                     \* the machine
  runner, pc, cmd,          \* the process that drives the board, where it stands, what was asked of it
  held,                     \* the listener has its port
  heard, holed,             \* the lines no wait has looked past; a drop marker since the capture began
  capture, stage, tries,    \* the capture, whether it is the first or verifies a write, and its number
  isolation, slipped,       \* of the last reset; history: bytes came between the silence and the reset
  match                     \* history: what is wrong with the lines matched: "stale", from the boot
                            \* before; "cut", an identity without its end

boardVars == <<flash, todo, owed, inReset>>
cfgVars == <<host>>
waitVars == <<heard, holed, wire, marker>>
capVars == <<capture, stage, tries>>
isoVars == <<isolation, slipped>>
vars == <<lockVars, boardVars, cfgVars, waitVars, capVars, isoVars,
          runner, pc, cmd, held, match>>

\* What the host reads in the identity line of an image, and in one cut short.
Says == [i \in OnBoard |-> FromLine(Printed(i))]
CutSays == [i \in OnBoard |-> {FromLine(text) : text \in CutShort(Printed(i))}]
Identities == UNION {{Says[i]} \cup CutSays[i] : i \in OnBoard}
Lines == [what : {"identity", "banner", "up"}, says : Identities \cup {None},
          cut : BOOLEAN, stale : BOOLEAN]
Captures == [kind : {"none", "NoIdentity", "NoApplication"}, says : {None}]
            \cup [kind : {"Identified"}, says : Identities \ {None}]
Capture(kind) == [kind |-> kind, says |-> None]
Waits == {"identity", "banner", "await", "capture"}

\* What a boot prints: console::install names the image before the application speaks.
Boot(image) == CASE image \in Dead -> << >>
                 [] image \notin Dead /\ ~Build[image].app_desc -> <<"banner", "up">>
                 [] OTHER -> <<"identity", "banner", "up">>

\* Only the identity line says whose it is.
Line(what, image) ==
  [what |-> what, says |-> IF what = "identity" THEN Says[image] ELSE None,
   cut |-> FALSE, stale |-> FALSE]

NoCommand == [flags |-> {}, target |-> << >>]

\* What hil.toml or the command line say of the board.
route == cmd.target.board.reset.by
banner == Has(cmd.target.said, "banner")

WantsIdentity == cmd.flags \cap {"read_identity", "expect_image", "ensure_image"} # {}

Init ==
  /\ LockInit
  /\ flash \in OnBoard /\ todo = << >> /\ owed = FALSE /\ inReset = FALSE
  /\ wire = << >> /\ marker = FALSE /\ heard = << >> /\ holed = FALSE
  /\ host \in DOMAIN Hosts
  /\ runner = None /\ pc = "idle" /\ cmd = NoCommand /\ held = FALSE
  /\ capture = Capture("none") /\ stage = "first" /\ tries = 0
  /\ isolation = "Clean" /\ slipped = FALSE
  /\ match = {}

--------------------------------------------------------------------------------
(* The board                                                                    *)

\* A restart: what the old boot printed and the run still has is stale from now on.
Restart(image) ==
  /\ flash' = image
  /\ todo' = Boot(image)
  /\ owed' = FALSE /\ inReset' = FALSE

\* ControlLines. The circuit cancels when both are asserted, as the kernel does
\* for whoever opens the port; IO0 stays high, so the application boots.
IDLE == [rts |-> FALSE, dtr |-> FALSE]
RESET == [rts |-> TRUE, dtr |-> FALSE]
Raised == [rts |-> TRUE, dtr |-> TRUE]
EnLow(lines) == lines.rts /\ ~lines.dtr

\* Both lines move together. A board with EN low is silent, and boots on its way up.
SetControlLines(want) ==
  IF EnLow(want) THEN inReset' = TRUE /\ todo' = << >> /\ owed' = FALSE /\ UNCHANGED flash
  ELSE IF inReset THEN Restart(flash) ELSE UNCHANGED boardVars

Aged(lines) == [i \in DOMAIN lines |-> [lines[i] EXCEPT !.stale = TRUE]]

\* Without a reader the bytes are gone, and the ring may overrun.
Say(what, image) ==
  IF held THEN wire' = Append(wire, Line(what, image)) /\ owed' = owed
          ELSE wire' = wire /\ owed' \in {owed, TRUE}

BoardStays == <<lockVars, cfgVars, capVars, isoVars, runner, pc, cmd, held, match,
                heard, holed, flash, inReset>>

Speak ==
  /\ todo # << >>
  /\ Say(Head(todo), flash)
  /\ todo' = Tail(todo)
  /\ UNCHANGED <<BoardStays, marker>>

\* The ring overruns: a line is lost, or what comes after the first slice of the
\* identity line. The marker of a cut comes in its place or, rate-limited, later.
Overrun ==
  /\ todo # << >> /\ held
  /\ todo' = Tail(todo)
  /\ owed' = TRUE
  /\ \/ UNCHANGED wire
     \/ /\ Head(todo) = "identity"
        /\ \E says \in CutSays[flash] :
             wire' = Append(wire, [Line("identity", flash) EXCEPT !.says = says, !.cut = TRUE])
  /\ UNCHANGED <<BoardStays, marker>>

\* The console marks every gap before it falls silent (Console, GapsMarked).
SpeakMarker ==
  /\ owed
  /\ marker' = (marker \/ held)
  /\ owed' = FALSE
  /\ UNCHANGED <<BoardStays, todo, wire>>

\* The application goes on printing.
Chatter ==
  /\ todo = << >> /\ flash \notin Dead /\ ~inReset
  /\ held /\ Len(wire) + Len(heard) < MaxLines
  /\ wire' = Append(wire, Line("up", flash))
  /\ UNCHANGED <<BoardStays, todo, owed, marker>>

--------------------------------------------------------------------------------
(* A run                                                                        *)

Go(label) == pc' = label

RunStays == <<lockVars, cfgVars, runner, cmd>>

\* run returns: the port goes, then the lock (Remove).
Cleared ==
  /\ runner' = None /\ Go("idle") /\ cmd' = NoCommand /\ held' = FALSE
  /\ wire' = << >> /\ marker' = FALSE /\ heard' = << >> /\ holed' = FALSE
  /\ capture' = Capture("none") /\ stage' = "first" /\ tries' = 0
  /\ isolation' = "Clean" /\ slipped' = FALSE /\ match' = {}
  /\ UNCHANGED cfgVars

Returns == Goes(runner, "leaving") /\ Cleared /\ UNCHANGED <<file, linked, raced>>

Fails == Returns /\ UNCHANGED boardVars

\* The lock is held: open the port. What two runs that raced to the lock then do
\* to one board is not modelled; until then only one gets here.
Open(p, c) ==
  /\ claim[p] = "held" /\ p # runner
  /\ runner = None /\ ~raced
  /\ Runs(c, host)
  /\ runner' = p /\ cmd' = Resolved(c, host)
  /\ held' = TRUE /\ Go("quiesce")
  /\ wire' = << >> /\ marker' = FALSE /\ heard' = << >> /\ holed' = FALSE
  /\ capture' = Capture("none") /\ stage' = "first" /\ tries' = 1
  /\ isolation' = "Clean" /\ slipped' = FALSE
  /\ match' = {}
  /\ SetControlLines(Raised)
  /\ UNCHANGED <<lockVars, cfgVars>>

\* The port is another's, or cannot be opened, or not configured then; the lock
\* is dropped all the same.
OpenFails(p) ==
  /\ claim[p] = "held" /\ p # runner
  /\ Goes(p, "leaving")
  /\ SetControlLines(Raised) \/ UNCHANGED boardVars
  /\ UNCHANGED <<file, linked, raced, cfgVars, waitVars, capVars, isoVars,
                 runner, pc, cmd, held, match>>

\* Mutant: the capture begins without forgetting what was heard before.
BoundaryKeepsHeard(iso) ==
  /\ isolation' = iso
  /\ match' = {} /\ UNCHANGED <<heard, holed>>
  /\ Go("reset")

\* The end of quiesce, discard_backlog and begin_capture: no wait and no
\* judgement sees anything heard before.
Boundary(iso) ==
  /\ isolation' = iso
  /\ heard' = << >> /\ holed' = FALSE /\ match' = {}
  /\ Go("reset")

\* A read of quiesce brings bytes: again, or the budget is spent, with them or
\* with more still on the way.
QuiesceHears ==
  /\ pc = "quiesce" /\ (wire # << >> \/ marker)
  /\ wire' = << >> /\ marker' = FALSE
  /\ UNCHANGED <<isolation, heard, holed, pc>>
  /\ UNCHANGED <<RunStays, boardVars, capVars, slipped, held, match>>

QuiesceGivesUp ==
  /\ pc = "quiesce" /\ (wire # << >> \/ marker)
  /\ \/ UNCHANGED <<wire, marker>>
     \/ wire' = << >> /\ marker' = FALSE
  /\ Boundary("Chatty")
  /\ UNCHANGED <<RunStays, boardVars, capVars, slipped, held>>

QuiesceSilent ==
  /\ pc = "quiesce" /\ wire = << >> /\ ~marker
  /\ Boundary("Clean")
  /\ UNCHANGED <<RunStays, boardVars, capVars, slipped, held, wire, marker>>

AfterReset == IF WantsIdentity THEN "identity"
              ELSE IF "await_boot" \in cmd.flags THEN "await" ELSE "capture"

\* What was heard of the boot that ends here.
Ages ==
  /\ wire' = Aged(wire) /\ heard' = Aged(heard)
  /\ slipped' = (isolation = "Clean" /\ wire # << >>)

PulseStays == <<RunStays, capVars, isolation, held, marker, holed, match>>

\* hard_reset, by the debug probe.
ProbeResets ==
  /\ pc = "reset" /\ route = "probe_rs"
  /\ Restart(flash)
  /\ Ages
  /\ Go(AfterReset)
  /\ UNCHANGED PulseStays

\* reset_lines_sequence, on the held port: three ioctls, between which a run may
\* be killed.
ReleaseLines ==
  /\ pc = "reset" /\ route = "serial_lines"
  /\ SetControlLines(IDLE)
  /\ Go("pull_en")
  /\ UNCHANGED <<PulseStays, wire, heard, slipped>>

PullEn ==
  /\ pc = "pull_en"
  /\ SetControlLines(RESET)
  /\ Ages
  /\ Go("release_en")
  /\ UNCHANGED PulseStays

ReleaseEn ==
  /\ pc = "release_en"
  /\ SetControlLines(IDLE)
  /\ Go(AfterReset)
  /\ UNCHANGED <<PulseStays, wire, heard, slipped>>

\* across_reset lets go of the port, for a tool that wants it for itself.
LetGo ==
  /\ \/ pc = "reset" /\ route = "espflash" /\ Go("tool_reset")
     \/ pc = "release" /\ Go("write")
  /\ held' = FALSE /\ wire' = << >> /\ marker' = FALSE
  /\ UNCHANGED <<RunStays, boardVars, capVars, isoVars, heard, holed, match>>

ToolResets ==
  /\ pc = "tool_reset"
  /\ Restart(flash)
  /\ slipped' = FALSE
  /\ Go("reopen")
  /\ UNCHANGED <<RunStays, capVars, isolation, waitVars, held, match>>

\* open_when_back, after a reset or before verifying a write.
Reopen ==
  /\ pc \in {"reopen", "reopen_written"}
  /\ held' = TRUE /\ SetControlLines(Raised)
  /\ IF pc = "reopen" THEN Go(AfterReset) /\ UNCHANGED <<stage, tries>>
                      ELSE Go("quiesce") /\ stage' = "verify" /\ tries' = 1
  /\ UNCHANGED <<RunStays, isoVars, waitVars, capture, match>>

\* A reset that fails, a device that does not come back, a port that dies.
PortFails ==
  /\ pc \in {"reset", "pull_en", "release_en", "tool_reset", "reopen", "reopen_written", "write"}
            \cup Waits
  /\ Fails

\* What the wait at pc looks for; NEVER for a capture with no --until.
Sought == CASE pc \in {"identity", "banner"} -> pc
            [] pc = "await" \/ (pc = "capture" /\ "until" \in cmd.flags) -> "up"
            [] OTHER -> "nothing"

HitAt(i) ==
  /\ i \in DOMAIN heard /\ heard[i].what = Sought
  /\ \A j \in 1..(i - 1) : heard[j].what # Sought

Flaws(line) == {f \in {"stale", "cut"} : line[f]}

NoHit == \A i \in DOMAIN heard : heard[i].what # Sought

\* The wait matches line i, and no later wait looks at it again.
Matches(i) ==
  /\ HitAt(i)
  /\ heard' = SubSeq(heard, i + 1, Len(heard))
  /\ UNCHANGED <<RunStays, boardVars, isoVars, wire, marker, holed, stage, tries, held>>

\* No wait is shorter than a boot: its time is up only when the board has said
\* all it had to say of what the wait looks for, marker included.
Expires ==
  /\ NoHit /\ ~owed /\ ~marker
  /\ \A i \in DOMAIN todo : todo[i] # Sought
  /\ \A i \in DOMAIN wire : wire[i].what # Sought

Hear ==
  /\ pc \in Waits /\ NoHit /\ (wire # << >> \/ marker)
  /\ heard' = heard \o wire /\ holed' = (holed \/ marker)
  /\ wire' = << >> /\ marker' = FALSE
  /\ UNCHANGED <<RunStays, boardVars, capVars, isoVars, pc, held, match>>

\* read_identity: a line that does not parse is no identity; without one the
\* banner tells whether the application was reached.
ReadMatched ==
  /\ pc \in {"identity", "banner"}
  /\ \E i \in DOMAIN heard :
       /\ Matches(i)
       /\ capture' = IF pc = "identity" /\ heard[i].says # None
                     THEN [kind |-> "Identified", says |-> heard[i].says]
                     ELSE Capture("NoIdentity")
       /\ match' = Flaws(heard[i])
  /\ Go("judge")

ReadExpired ==
  /\ pc \in {"identity", "banner"} /\ Expires
  /\ IF pc = "identity" /\ banner
     THEN Go("banner") /\ UNCHANGED capture
     ELSE Go("judge") /\ capture' = Capture(IF pc = "banner" THEN "NoApplication" ELSE "NoIdentity")
  /\ UNCHANGED <<RunStays, boardVars, isoVars, waitVars, stage, tries, held, match>>

\* Mutant: the captures are not counted.
RetryUncounted ==
  /\ pc = "judge" /\ holed
  /\ capture' = Capture("none") /\ match' = {}
  /\ Go("quiesce")
  /\ UNCHANGED <<RunStays, boardVars, isoVars, waitVars, stage, tries, held>>

\* A hole is the capture's, not the image's: reset and read again.
Retry ==
  /\ pc = "judge" /\ holed /\ tries < Tries
  /\ tries' = tries + 1
  /\ capture' = Capture("none") /\ match' = {}
  /\ Go("quiesce")
  /\ UNCHANGED <<RunStays, boardVars, isoVars, waitVars, stage, held>>

\* Mutant: a capture with a hole is judged like any other.
JudgingAtOnce == pc = "judge"

Judging == pc = "judge" /\ ~(holed /\ tries < Tries)

Want == ExpectedImage(Elf)

Confirmed == capture.kind = "Identified" /\ MatchedBy(Want, capture.says)

\* The modes that only verify stop at a hole, at silence, and at another image.
Refuted ==
  IF stage = "verify" THEN holed \/ ~Confirmed
  ELSE \/ /\ cmd.flags \cap {"read_identity", "expect_image"} # {}
          /\ holed \/ capture.kind = "NoApplication"
       \/ "read_identity" \in cmd.flags /\ capture.kind # "Identified"
       \/ /\ "read_identity" \notin cmd.flags
          /\ \/ "expect_image" \in cmd.flags /\ ~Confirmed
             \/ cmd.flags \cap {"expect_image", "ensure_image"} # {} /\ Want = None

\* ensure_image writes whatever does not prove that the image is there.
NeedsWrite ==
  /\ stage = "first" /\ "read_identity" \notin cmd.flags /\ "ensure_image" \in cmd.flags
  /\ holed \/ ~Confirmed

RefuteRun == Judging /\ Refuted /\ Fails

\* The image is settled, and what was captured of it is done with.
Accept ==
  /\ Judging /\ ~Refuted /\ ~NeedsWrite /\ "read_identity" \notin cmd.flags
  /\ capture' = Capture("none") /\ stage' = "first" /\ tries' = 0
  /\ Go(IF "await_boot" \in cmd.flags THEN "await"
        ELSE IF "capture" \in cmd.flags THEN "capture" ELSE "finish")
  /\ UNCHANGED <<RunStays, boardVars, isoVars, waitVars, held, match>>

DecideWrite ==
  /\ Judging /\ ~Refuted /\ NeedsWrite
  /\ capture' = Capture("none") /\ match' = {}
  /\ Go("release")
  /\ UNCHANGED <<RunStays, boardVars, isoVars, waitVars, stage, tries, held>>

\* flash_image: espflash says it wrote the image, and restarts the board unheard.
Write ==
  /\ pc = "write"
  /\ \E image \in OnBoard : Restart(image)
  /\ Go("reopen_written")
  /\ UNCHANGED <<RunStays, isoVars, waitVars, capVars, held, match>>

\* It fails, and may leave half an image.
WriteFails ==
  /\ pc = "write"
  /\ \E image \in {flash} \cup Dead : Restart(image)
  /\ Returns

\* await_marker, and the capture up to --until.
AwaitMatched ==
  /\ pc = "await"
  /\ \E i \in DOMAIN heard : Matches(i) /\ match' = Flaws(heard[i]) \cup (match \cap {"cut"})
  /\ Go(IF "capture" \in cmd.flags THEN "capture" ELSE "finish")
  /\ UNCHANGED capture

AwaitExpired == pc = "await" /\ Expires /\ Fails

\* The seconds of a capture are the user's: they may be up at any time.
CaptureEnds ==
  /\ pc = "capture"
  /\ \/ \E i \in DOMAIN heard : Matches(i) /\ match' = Flaws(heard[i]) \cup (match \cap {"cut"})
     \/ /\ NoHit /\ "until" \notin cmd.flags
        /\ UNCHANGED <<RunStays, boardVars, isoVars, waitVars, stage, tries, held, match>>
  /\ Go("finish")
  /\ UNCHANGED capture

CaptureExpired == pc = "capture" /\ NoHit /\ "until" \in cmd.flags /\ Fails

\* no_holes, for a run that captured; then run returns.
HoledCapture == pc = "finish" /\ holed /\ "capture" \in cmd.flags /\ Fails

Succeed ==
  /\ \/ pc = "finish" /\ ~(holed /\ "capture" \in cmd.flags)
     \/ Judging /\ ~Refuted /\ "read_identity" \in cmd.flags
  /\ Returns
  /\ UNCHANGED boardVars

--------------------------------------------------------------------------------
(* Processes come, and are killed                                               *)

OthersStay == UNCHANGED <<boardVars, cfgVars, waitVars, capVars, isoVars, runner, pc, cmd,
                          held, match>>

Claim(p) ==
  /\ Check(p) \/ Create(p) \/ WritePid(p) \/ Remove(p)
  /\ OthersStay

Kill(p) ==
  /\ Die(p)
  /\ IF p # runner THEN OthersStay
     ELSE /\ Cleared
          /\ IF pc = "write" THEN \E image \in {flash} \cup Dead : Restart(image)
                             ELSE UNCHANGED boardVars

Start(p) == OpenFails(p) \/ \E c \in Commands[p] : Open(p, c)

Step ==
  \/ QuiesceGivesUp \/ QuiesceSilent
  \/ ProbeResets \/ ReleaseLines \/ PullEn \/ ReleaseEn \/ LetGo \/ ToolResets \/ Reopen \/ PortFails
  \/ Hear \/ ReadMatched \/ ReadExpired \/ Retry
  \/ RefuteRun \/ Accept \/ DecideWrite \/ Write \/ WriteFails
  \/ AwaitMatched \/ AwaitExpired \/ CaptureEnds \/ CaptureExpired \/ Succeed \/ HoledCapture

BoardStep == Speak \/ Overrun \/ SpeakMarker \/ Chatter

Next ==
  \/ \E p \in Procs : Claim(p) \/ Start(p) \/ Kill(p)
  \/ QuiesceHears \/ Step
  \/ BoardStep

\* A run goes on while it can, and QUIESCE_BUDGET bounds its listening to a
\* board that talks; the board prints what its boot has to say. Nothing makes a
\* process start, or a kill happen.
Fairness == WF_vars(Step) /\ WF_vars(Speak \/ SpeakMarker)

Spec == Init /\ [][Next]_vars /\ Fairness

--------------------------------------------------------------------------------
(* Properties                                                                   *)

TypeOK ==
  /\ LockTypeOK
  /\ flash \in OnBoard /\ owed \in BOOLEAN /\ inReset \in BOOLEAN
  /\ todo \in Seq({"identity", "banner", "up"})
  /\ wire \in Seq(Lines) /\ heard \in Seq(Lines) /\ holed \in BOOLEAN /\ marker \in BOOLEAN
  /\ host \in DOMAIN Hosts
  /\ runner \in Procs \cup {None} /\ (runner = None) = (pc = "idle")
  /\ runner # None => claim[runner] = "held"
  /\ cmd.flags \subseteq Actions \cup {"until"} /\ held \in BOOLEAN
  /\ capture \in Captures /\ stage \in {"first", "verify"} /\ tries \in 0..Tries
  /\ isolation \in {"Clean", "Chatty"} /\ slipped \in BOOLEAN
  /\ match \subseteq {"stale", "cut"}

\* A run that succeeds has told the truth: a board it vouches for bears what was
\* built of the ELF's commit, and the identity it printed is what the board's
\* image says, whatever espflash said, whatever was lost, and whoever was killed
\* before. Only what is printed may lack its end, when the console had not marked
\* the cut yet.
VerdictTrue ==
  [][Succeed =>
       /\ "read_identity" \in cmd.flags /\ "cut" \notin match => capture.says = Says[flash]
       /\ "read_identity" \notin cmd.flags /\ cmd.flags \cap {"expect_image", "ensure_image"} # {}
            => SameFirmware(Elf, flash)]_vars

\* The comparison tells the image on the board, or one on the shelf, from every
\* ELF, whichever of them has the identity feature, a prefix, no commit, a patched
\* hash or a magic word by chance: two the same to a person match, others do not,
\* also when the line lost its end.
NamesTell ==
  runner = None =>
    \A i \in Images, j \in {flash} \cup (Images \ OnBoard) : Tells(i, j)

\* 40 s of flash wear are spent for a reason: no write goes to a board that
\* runs the image, unless every capture had a hole, or what was read is left
\* from the boot before, or cut. Only a reset that lets go of the port misses a
\* boot.
NoNeedlessWrite ==
  [][DecideWrite => \/ ~SameFirmware(Elf, flash)
                    \/ holed /\ tries = Tries
                    \/ match # {}
                    \/ route = "espflash"]_vars

\* What a wait matches was printed after the reset, unless the board never fell
\* silent before it, or spoke again between the silence and the reset.
MatchIsThisBoot ==
  "stale" \in match => isolation = "Chatty" \/ slipped

\* Each run ends: no wait, retry or reset goes on for ever, also on a board
\* that never stops printing or never boots.
RunEnds == runner # None ~> runner = None
================================================================================
