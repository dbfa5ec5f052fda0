------------------------------ MODULE Spi2Bus ------------------------------
(***************************************************************************)
(* The SPI2 bus the display and the SD card share (src/board/spi2.rs and   *)
(* the GPIO35 half of src/board/cores3.rs).                                *)
(*                                                                         *)
(* Four ways to use the bus, one constant set each:                        *)
(*   Displays  FairSpiDevice::new_display, one transaction per turn        *)
(*   Prepared  PreparedCard::acquire, one guard per turn                   *)
(*   Inner     PreparedCard::into_inner, a card behind FairSpiDevice       *)
(*   Raw       Spi2Parts::finish, a card SpiDevice outside the arbiter     *)
(*                                                                         *)
(* A step is the code between two awaits, or between two writes another    *)
(* core can see: the locks of these statics are cross-core, and both       *)
(* boards run two cores.                                                   *)
(***************************************************************************)
EXTENDS Integers, Sequences, SequencesExt

CONSTANTS
    Displays, Prepared, Inner, Raw,   \* the users, by the path they take
    Absent,          \* cards built with CardPresence::ForceAbsent
    Quitters,        \* users whose caller may drop a future that waits
    NoUser,          \* nobody
    SPI2_WAITERS,    \* slots of the permit's waiter queue
    DisplayConfig,   \* display_config(): 40 MHz
    SdInitConfig,    \* sd_init_config(): 400 kHz
    CardConfigs,     \* configs the app may give the card
    Rejected         \* configs apply_config answers with ConfigError

Users == Displays \cup Prepared \cup Inner \cup Raw
Fair  == Displays \cup Prepared \cup Inner     \* users that take the permit
Configs == CardConfigs \cup {DisplayConfig}

\* SPI2_FAIR and its waiter slots are fixed at build time; both boards'
\* display config is one the peripheral accepts.
ASSUME BusAssumption ==
    /\ SPI2_WAITERS \in Nat
    /\ NoUser \notin Users
    /\ Quitters \subseteq Users
    /\ SdInitConfig \in CardConfigs
    /\ DisplayConfig \notin CardConfigs \cup Rejected

\* A user is of one kind, and SPI_BUS.init hands the bus to one finish_sd,
\* which builds one PreparedCard.
ASSUME UsersAssumption ==
    /\ Displays \cap Prepared = {}
    /\ Displays \cap Inner = {}
    /\ Displays \cap Raw = {}
    /\ Prepared \cap Inner = {}
    /\ Prepared \cap Raw = {}
    /\ Inner \cap Raw = {}
    /\ \A c, d \in Prepared : c = d

VARIABLES
    pc,              \* where each user's future stands
    permit,          \* the user holding SPI2_FAIR's one permit
    queue,           \* SPI2_FAIR's waiters, in arrival order
    owner,           \* the user holding the bus mutex
    clock,           \* config the peripheral runs at
    cardConfigured,  \* Spi2Bus::card_configured
    cs,              \* chip-select lines
    dcLow,           \* DC_LOW: the recorded, not yet driven, DC level
    pad,             \* GPIO35: output driver enabled, level driven low
    config,          \* config each device or PreparedCard carries
    live,            \* history: what the card last chose, stored or on a guard
    held             \* GOT - REL of each pair of permit counters

busVars  == <<permit, queue, owner>>
hwVars   == <<clock, cardConfigured, cs>>
padVars  == <<dcLow, pad>>
cfgVars  == <<config, live>>
vars == <<pc, busVars, hwVars, padVars, cfgVars, held>>

\* Which pair of counters a user's turns are counted on: FairSpiDevice counts
\* on the DISP_ pair whatever it wraps.
Counter(u) == IF u \in Prepared THEN "card" ELSE "disp"

Got(u) == held' = [held EXCEPT ![Counter(u)] = @ + 1]
Rel(u) == held' = [held EXCEPT ![Counter(u)] = @ - 1]

Goto(u, l) == pc' = [pc EXCEPT ![u] = l]
At(u, l) == pc[u] = l

\* finish_sd has returned: the panel is up, the bus at its clock, the pad MISO.
Init ==
    /\ pc = [u \in Users |-> "idle"]
    /\ permit = NoUser
    /\ queue = << >>
    /\ owner = NoUser
    /\ clock = DisplayConfig
    /\ cardConfigured = FALSE
    /\ cs = [u \in Users |-> "high"]
    /\ dcLow = FALSE
    /\ pad = [out |-> FALSE, low |-> FALSE]
    /\ config = [u \in Users |->
                    IF u \in Displays THEN DisplayConfig ELSE SdInitConfig]
    /\ live = SdInitConfig
    /\ held = [k \in {"disp", "card"} |-> 0]

-----------------------------------------------------------------------------
(* Asking for the bus.                                                     *)

\* A user starts a turn.  SpiInterface records the DC level first; a driver
\* built on a card SpiDevice runs its pre-op hook, gpio35_disable_output.
\* A raw device goes straight to the mutex.
Enter(u) ==
    /\ At(u, "idle")
    /\ Goto(u, IF u \in Raw THEN "lock" ELSE "enter")
    /\ IF u \in Displays THEN dcLow' \in BOOLEAN ELSE UNCHANGED dcLow
    /\ pad' = IF u \in Inner \cup Raw THEN [pad EXCEPT !.out = FALSE] ELSE pad
    /\ UNCHANGED <<busVars, hwVars, cfgVars, held>>

\* SPI2_FAIR.acquire(1) grants at once only when nobody waits.
PermitFree == permit = NoUser /\ queue = << >>

\* Mutant: a newcomer takes a free permit past the waiters.
AcquireNowBarging(u) ==
    /\ At(u, "enter")
    /\ permit = NoUser
    /\ permit' = u
    /\ Goto(u, "granted")
    /\ Got(u)
    /\ UNCHANGED <<queue, owner, hwVars, padVars, cfgVars>>

AcquireNow(u) ==
    /\ At(u, "enter")
    /\ PermitFree
    /\ permit' = u
    /\ Goto(u, "granted")
    /\ Got(u)
    /\ UNCHANGED <<queue, owner, hwVars, padVars, cfgVars>>

Enqueue(u) ==
    /\ At(u, "enter")
    /\ ~PermitFree
    /\ Len(queue) < SPI2_WAITERS
    /\ queue' = Append(queue, u)
    /\ Goto(u, "queued")
    /\ UNCHANGED <<permit, owner, hwVars, padVars, cfgVars, held>>

\* Mutant: the full queue falls through to a transaction without a permit.
TurnedAwayFallsThrough(u) ==
    /\ At(u, "enter")
    /\ ~PermitFree
    /\ Len(queue) >= SPI2_WAITERS
    /\ Goto(u, "granted")
    /\ UNCHANGED <<busVars, hwVars, padVars, cfgVars, held>>

\* WaitQueueFull: the display drops the transaction, the card gets None.
TurnedAway(u) ==
    /\ At(u, "enter")
    /\ ~PermitFree
    /\ Len(queue) >= SPI2_WAITERS
    /\ Goto(u, "idle")
    /\ UNCHANGED <<busVars, hwVars, padVars, cfgVars, held>>

\* The permit is free and u is the oldest waiter.
Grant(u) ==
    /\ At(u, "queued")
    /\ permit = NoUser
    /\ queue # << >>
    /\ Head(queue) = u
    /\ permit' = u
    /\ queue' = Tail(queue)
    /\ Goto(u, "granted")
    /\ Got(u)
    /\ UNCHANGED <<owner, hwVars, padVars, cfgVars>>

\* Mutant: the dropped future leaves its ticket in the queue.
CancelQueuedDeadTicket(u) ==
    /\ u \in Quitters
    /\ At(u, "queued")
    /\ \E i \in 1..Len(queue) :
           queue[i] = u /\ queue' = [queue EXCEPT ![i] = NoUser]
    /\ Goto(u, "idle")
    /\ UNCHANGED <<permit, owner, hwVars, padVars, cfgVars, held>>

\* A transaction or acquire that is still queued is dropped, as by a timeout.
CancelQueued(u) ==
    /\ u \in Quitters
    /\ At(u, "queued")
    /\ \E i \in 1..Len(queue) : queue[i] = u /\ queue' = RemoveAt(queue, i)
    /\ Goto(u, "idle")
    /\ UNCHANGED <<permit, owner, hwVars, padVars, cfgVars, held>>

-----------------------------------------------------------------------------
(* With the permit: to the mutex.                                          *)

\* The display drives the recorded DC level now that the turn is its own.
TakeTurn(u) ==
    /\ At(u, "granted")
    /\ Goto(u, "lock")
    /\ pad' = IF u \in Displays THEN [out |-> TRUE, low |-> dcLow] ELSE pad
    /\ UNCHANGED <<busVars, hwVars, dcLow, cfgVars, held>>

\* The first poll of Mutex::lock succeeds unless somebody holds it; only then
\* is the future suspended, and only then can it be dropped.
LockPending(u) ==
    /\ At(u, "lock")
    /\ owner # NoUser
    /\ Goto(u, "lockwait")
    /\ UNCHANGED <<busVars, hwVars, padVars, cfgVars, held>>

Lock(u) ==
    /\ pc[u] \in {"lock", "lockwait"}
    /\ owner = NoUser
    /\ owner' = u
    /\ Goto(u, "locked")
    /\ UNCHANGED <<permit, queue, hwVars, padVars, cfgVars, held>>

\* Mutants: the permit is not returned by a Drop, or its count is not.
CancelLockKeepsPermit(u) ==
    /\ u \in Quitters
    /\ At(u, "lockwait")
    /\ Goto(u, "idle")
    /\ UNCHANGED <<busVars, hwVars, padVars, cfgVars, held>>

CancelLockUncounted(u) ==
    /\ u \in Quitters
    /\ At(u, "lockwait")
    /\ Goto(u, "idle")
    /\ permit' = IF u \in Raw THEN permit ELSE NoUser
    /\ UNCHANGED <<queue, owner, hwVars, padVars, cfgVars, held>>

\* Dropped at the mutex: the permit goes back.  FairSpiDevice counts it from a
\* Drop; acquire has no guard yet and counts nothing.
CancelLock(u) ==
    /\ u \in Quitters
    /\ At(u, "lockwait")
    /\ Goto(u, IF u \in Raw THEN "idle" ELSE "release")
    /\ UNCHANGED <<busVars, hwVars, padVars, cfgVars, held>>

-----------------------------------------------------------------------------
(* A SpiDevice transaction: SpiDeviceWithConfig over Spi2Bus.              *)

Select(u) ==
    cs' = [cs EXCEPT ![u] = IF u \in Absent THEN "high" ELSE "low"]

\* Mutant: the record is updated at the call site, and one site forgets.
StartTransferKeepsRecord(u) ==
    /\ u \notin Prepared
    /\ At(u, "locked")
    /\ clock' = config[u]
    /\ Select(u)
    /\ Goto(u, "transfer")
    /\ UNCHANGED <<cardConfigured, busVars, padVars, cfgVars, held>>

\* Spi2Bus::set_config, then the chip-select.  A rejected config returns the
\* error with the chip never selected.
StartTransfer(u) ==
    /\ u \notin Prepared
    /\ At(u, "locked")
    /\ IF config[u] \in Rejected
       THEN Goto(u, "unlock") /\ UNCHANGED hwVars
       ELSE /\ clock' = config[u]
            /\ cardConfigured' = FALSE
            /\ Select(u)
            /\ Goto(u, "transfer")
    /\ UNCHANGED <<busVars, padVars, cfgVars, held>>

\* The operations end, fail, or the caller's timeout drops the future in the
\* middle of them: the chip-select rises first in every case.
EndTransfer(u) ==
    /\ At(u, "transfer")
    /\ cs' = [cs EXCEPT ![u] = "high"]
    /\ Goto(u, "unlock")
    /\ UNCHANGED <<busVars, clock, cardConfigured, padVars, cfgVars, held>>

\* FairSpiDevice::set_config between transactions: only the stored config.
SetDeviceConfig(u) ==
    /\ u \in Inner \cup Raw
    /\ At(u, "idle")
    /\ \E c \in CardConfigs : config' = [config EXCEPT ![u] = c]
    /\ UNCHANGED <<pc, busVars, hwVars, padVars, live, held>>

-----------------------------------------------------------------------------
(* A card guard: PreparedCard::acquire and Spi2CardGuard.                  *)

\* Spi2Bus::configure_for_card: true when the settings change.
Reconfigures(c) == ~cardConfigured /\ config[c] \notin Rejected

\* Mutant: the pad goes back to MISO once, at bring-up.
OpenGuardKeepsPad(c) ==
    /\ c \in Prepared
    /\ At(c, "locked")
    /\ clock' = IF Reconfigures(c) THEN config[c] ELSE clock
    /\ cardConfigured' = (cardConfigured \/ Reconfigures(c))
    /\ Goto(c, "guard")
    /\ UNCHANGED <<busVars, cs, padVars, cfgVars, held>>

\* The rest of acquire once the mutex is held.  An error of configure_for_card
\* is only logged; the pad goes back to MISO if the settings were foreign.
OpenGuard(c) ==
    /\ c \in Prepared
    /\ At(c, "locked")
    /\ clock' = IF Reconfigures(c) THEN config[c] ELSE clock
    /\ cardConfigured' = (cardConfigured \/ Reconfigures(c))
    /\ pad' = IF cardConfigured THEN pad ELSE [pad EXCEPT !.out = FALSE]
    /\ Goto(c, "guard")
    /\ UNCHANGED <<busVars, cs, dcLow, cfgVars, held>>

\* The driver asserts its chip-select for a command.
StartCommand(c) ==
    /\ At(c, "guard")
    /\ Select(c)
    /\ Goto(c, "command")
    /\ UNCHANGED <<busVars, clock, cardConfigured, padVars, cfgVars, held>>

\* Spi2CardGuard::apply_config; a rejected config changes nothing.
ApplyLive(c) ==
    /\ pc[c] \in {"guard", "command"}
    /\ \E new \in CardConfigs \ Rejected :
           /\ clock' = new
           /\ live' = new
    /\ cardConfigured' = TRUE
    /\ UNCHANGED <<pc, busVars, cs, padVars, config, held>>

\* Spi2CardGuard::drop: deselect, count the release; its fields then drop in
\* order, the mutex guard (Unlock) before the permit (Release).
DropGuard(c) ==
    /\ pc[c] \in {"guard", "command"}
    /\ cs' = [cs EXCEPT ![c] = "high"]
    /\ Rel(c)
    /\ Goto(c, "unlock")
    /\ UNCHANGED <<busVars, clock, cardConfigured, padVars, cfgVars>>

\* PreparedCard::set_config, the post-init clock raise: store, then lock the
\* mutex without a permit, then invalidate.
StoreConfig(c) ==
    /\ c \in Prepared
    /\ At(c, "idle")
    /\ \E new \in CardConfigs :
           /\ config' = [config EXCEPT ![c] = new]
           /\ live' = new
    /\ Goto(c, "setconfig")
    /\ UNCHANGED <<busVars, hwVars, padVars, held>>

\* It has to wait for the mutex, and may be dropped there: the record still
\* says that the card's old config is in force.
SetConfigPending(c) ==
    /\ At(c, "setconfig")
    /\ owner # NoUser
    /\ Goto(c, "setwait")
    /\ UNCHANGED <<busVars, hwVars, padVars, cfgVars, held>>

CancelSetConfig(c) ==
    /\ c \in Quitters
    /\ At(c, "setwait")
    /\ Goto(c, "idle")
    /\ UNCHANGED <<busVars, hwVars, padVars, cfgVars, held>>

LockForInvalidate(c) ==
    /\ pc[c] \in {"setconfig", "setwait"}
    /\ owner = NoUser
    /\ owner' = c
    /\ Goto(c, "invalidate")
    /\ UNCHANGED <<permit, queue, hwVars, padVars, cfgVars, held>>

Invalidate(c) ==
    /\ At(c, "invalidate")
    /\ cardConfigured' = FALSE
    /\ owner' = NoUser
    /\ Goto(c, "idle")
    /\ UNCHANGED <<permit, queue, clock, cs, padVars, cfgVars, held>>

-----------------------------------------------------------------------------
(* Ending a turn.                                                          *)

Unlock(u) ==
    /\ At(u, "unlock")
    /\ owner' = NoUser
    /\ Goto(u, IF u \in Raw THEN "idle" ELSE "release")
    /\ UNCHANGED <<permit, queue, hwVars, padVars, cfgVars, held>>

\* RelOnDrop counts a device's release here, as the permit goes back.
Release(u) ==
    /\ At(u, "release")
    /\ permit' = NoUser
    /\ Goto(u, "idle")
    /\ IF u \in Prepared THEN UNCHANGED held ELSE Rel(u)
    /\ UNCHANGED <<queue, owner, hwVars, padVars, cfgVars>>

-----------------------------------------------------------------------------
\* The steps a turn that has begun takes on its own.
Advance(u) ==
    \/ AcquireNow(u) \/ Enqueue(u) \/ TurnedAway(u) \/ Grant(u)
    \/ TakeTurn(u) \/ LockPending(u)
    \/ StartTransfer(u) \/ EndTransfer(u)
    \/ OpenGuard(u) \/ DropGuard(u)
    \/ SetConfigPending(u) \/ Invalidate(u)
    \/ Unlock(u) \/ Release(u)

TakeMutex(u) == Lock(u) \/ LockForInvalidate(u)

\* The steps the application may or may not take.
Choose(u) ==
    \/ Enter(u)
    \/ CancelQueued(u) \/ CancelLock(u) \/ CancelSetConfig(u)
    \/ StartCommand(u) \/ ApplyLive(u)
    \/ StoreConfig(u) \/ SetDeviceConfig(u)

Next == \E u \in Users : Advance(u) \/ TakeMutex(u) \/ Choose(u)

\* A woken task is polled, a DMA transfer ends, a driver drops its guard.  The
\* mutex is not FIFO: a task asleep on it is woken at every unlock and is
\* polled again and again while the mutex is free, so it gets it eventually.
Fairness == \A u \in Users : WF_vars(Advance(u)) /\ SF_vars(TakeMutex(u))

Spec == Init /\ [][Next]_vars /\ Fairness

-----------------------------------------------------------------------------
(* Properties.                                                             *)

BusStates  == {"locked", "transfer", "guard", "command", "unlock"}
TurnStates == {"granted", "lock", "lockwait", "release"} \cup BusStates
States     == {"idle", "enter", "queued", "setconfig", "setwait", "invalidate"}
              \cup TurnStates

TypeOK ==
    /\ pc \in [Users -> States]
    /\ permit \in Fair \cup {NoUser}
    /\ queue \in Seq(Fair)
    /\ owner \in Users \cup {NoUser}
    /\ clock \in Configs
    /\ cardConfigured \in BOOLEAN
    /\ cs \in [Users -> {"low", "high"}]
    /\ dcLow \in BOOLEAN
    /\ pad \in [out : BOOLEAN, low : BOOLEAN]
    /\ config \in [Users -> Configs]
    /\ live \in CardConfigs
    /\ held \in [{"disp", "card"} -> Int]

\* At most one chip is selected, by the owner of the mutex, who if it is a fair
\* user also holds the permit: no reply of one chip meets another's clock.
OneSelected ==
    \A u \in Users : cs[u] = "low" =>
        /\ owner = u
        /\ u \in Fair => permit = u
        /\ \A v \in Users : cs[v] = "low" => u = v

\* GPIO35 is MISO whenever a card guard is open and drives the recorded DC
\* level whenever the panel is clocked, although the pad is handed back only
\* when the settings are foreign and driven before the mutex is taken.
PadFollowsTurn ==
    /\ \A c \in Prepared : pc[c] \in {"guard", "command"} => ~pad.out
    /\ \A d \in Displays : At(d, "transfer") => pad = [out |-> TRUE, low |-> dcLow]

\* A card with a guard open never runs at the display's clock, nor at one it
\* chose before its last set_config, unless the peripheral refuses its config:
\* also where that set_config was dropped before it cleared the record.
CardOnOwnTerms ==
    \A c \in Prepared :
        pc[c] \in {"guard", "command"} /\ config[c] \notin Rejected =>
            clock \in {config[c], live}

\* The permit counters tell who holds the bus, as long as no acquire is dropped
\* between its permit and its guard: at most one turn is counted as
\* running, on the pair of the permit's holder, and none with the permit free.
CountersTellHolder ==
    /\ permit = NoUser => \A k \in {"disp", "card"} : held[k] = 0
    /\ permit # NoUser =>
           \A k \in {"disp", "card"} :
               held[k] \in (IF k = Counter(permit) THEN {0, 1} ELSE {0})

\* v stands before u: it holds the permit or is an older waiter.
Ahead(v, u) ==
    \/ permit = v
    \/ \E i, j \in 1..Len(queue) : i < j /\ queue[i] = v /\ queue[j] = u

\* Nobody gets in front of a user that waits: it sits through at most one turn
\* of each user that was there before it.
NoOvertaking ==
    [][\A u, v \in Fair :
          At(u, "queued") /\ At(u, "queued")' /\ Ahead(v, u)' => Ahead(v, u)]_vars

\* A user that waits for its turn gets it or gives up: no lost permit, no
\* queue whose head is never served, no deadlock between permit and mutex.
Served == \A u \in Fair : At(u, "queued") ~> ~At(u, "queued")

\* The arbiter is a line of turns: permit holder first, then the waiters.
Line == IF permit = NoUser THEN queue ELSE <<permit>> \o queue
Selected == {u \in Users : cs[u] = "low"}

Turns == INSTANCE BusTurns WITH
             Users <- Fair, line <- Line, selected <- Selected

TakesTurns == Turns!Spec
=============================================================================
