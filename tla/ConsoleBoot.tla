----------------------------- MODULE ConsoleBoot -----------------------------
(***************************************************************************)
(* The console from boot to panic to boot (src/io/console.rs): install,    *)
(* the steady state of module Console, on_panic on either core, the reset  *)
(* that follows it or comes at any other time, and the breadcrumb in RTC   *)
(* memory that outlives it.                                                *)
(*                                                                         *)
(* The drain is a task of the first core, PRO.  A core that panics stops   *)
(* its tasks; the other one goes on.                                       *)
(***************************************************************************)
EXTENDS Console, LogFilter

CONSTANTS
    AppTasks,      \* the producers that run on the second core
    PanicLen,      \* length of the panic line
    PanicChunk,    \* bytes on_panic reads at a time
    IdentityLen,   \* length of what install logs
    Plans          \* bounds: who logs, how many lines, panics and boots there
                   \* are, and the filter spec of the build

Cores == {"PRO", "APP"}
CoreOf(t) == IF t \in AppTasks THEN "APP" ELSE "PRO"

ASSUME BootAssumption ==
    /\ AppTasks \subseteq Producers
    /\ PanicLen \in 1..RING_SIZE /\ IdentityLen \in 1..RING_SIZE
    /\ PanicChunk \in Nat \ {0}
    /\ \A p \in Plans : /\ p.who \subseteq Producers /\ p.filter \in Filters
                        /\ p.lines \in 0..MaxLines /\ p.panics \in Nat /\ p.boots \in Nat

VARIABLES
    boots, boot,   \* the boots so far; where main stands: "crumb", "install", "up"
    plan,          \* the bounds of this behaviour, and its filter
    stage,         \* where each core stands: running, or in on_panic
    panic,         \* the number of the panic each core is in
    panics,        \* how many there were
    chunk,         \* the bytes each core is poking into the FIFO
    gaveUp,        \* boot_panic_write found the transport dead
    crumb,         \* PANIC_CRUMB: the magic, the digest, the location
    told,          \* what take_panic_breadcrumb returned at this boot
    due, before,   \* history: the last panic of this run, and of the one before
    torn,          \* history: the run before was cut while a breadcrumb was written
    owed,          \* history: bytes of panic lines not sent and not overwritten
    slice          \* history: what was read from the ring last, by whomever

coreVars  == <<stage, panic, panics, chunk, gaveUp>>
crumbVars == <<crumb, told, due, before, torn>>
bootVars  == <<boots, boot, plan>>
allVars == <<vars, bootVars, coreVars, crumbVars, owed, slice>>

Words == {"magic", "reason", "file"}
NoPanic == 0
NoCrumb == [reason |-> NoPanic, file |-> NoPanic]

Running(core) == stage[core] = "running"
Panicked == \E core \in Cores : ~Running(core)

\* Bytes that were in the ring before a write and are not after it.
Overwritten == Range(Contents(ring)) \ Range(Contents(ring'))

BInit ==
    /\ Init
    /\ boots = 1 /\ boot = "crumb"
    /\ plan \in Plans /\ left = plan.lines
    /\ stage = [c \in Cores |-> "running"]
    /\ panic = [c \in Cores |-> NoPanic] /\ panics = 0
    /\ chunk = [c \in Cores |-> << >>]
    /\ gaveUp = FALSE
    /\ crumb = [magic |-> FALSE, reason |-> NoPanic, file |-> NoPanic]
    /\ told = NoCrumb
    /\ due = NoPanic /\ before = NoPanic /\ torn = FALSE
    /\ owed = {} /\ slice = << >>

-----------------------------------------------------------------------------
(* Bring-up, on the first core.                                            *)

\* Mutant: the breadcrumb is read and left in place.
TakeCrumbAndKeep ==
    /\ boot = "crumb" /\ Running("PRO")
    /\ told' = IF crumb.magic THEN [reason |-> crumb.reason, file |-> crumb.file] ELSE NoCrumb
    /\ boot' = "install"
    /\ UNCHANGED <<vars, boots, plan, coreVars, crumb, due, before, torn, owed, slice>>

\* take_panic_breadcrumb: read and clear.
TakeCrumb ==
    /\ boot = "crumb" /\ Running("PRO")
    /\ told' = IF crumb.magic THEN [reason |-> crumb.reason, file |-> crumb.file] ELSE NoCrumb
    /\ crumb' = [crumb EXCEPT !.magic = FALSE]
    /\ boot' = "install"
    /\ UNCHANGED <<vars, boots, plan, coreVars, due, before, torn, owed, slice>>

\* install: the backend, the transport, the drain, and the identity line.
Install ==
    /\ boot = "install" /\ Running("PRO")
    /\ ring' = Write(ring, NewBytes(IdentityLen))
    /\ drainSig' = TRUE
    /\ boot' = "up"
    /\ UNCHANGED <<prodVars, spaceSig, waiter, asleep, drainVars,
                   boots, plan, coreVars, crumbVars, owed, slice>>

-----------------------------------------------------------------------------
(* The steady state, on the cores that run.                                *)

\* The specs that let some record through, and all that is asked of them.
Logs == [f \in Filters |-> \E t \in Targets, level \in Levels : Admitted(f, t, level)]
Passes == [f \in Filters |-> LetsThrough(f)]

\* A record that passes the filter becomes a line; what is dumped passes it by.
Log(t) ==
    /\ t \in plan.who /\ FormatLine(t)
    /\ t \in Dumpers \/ Logs[plan.filter]
    /\ UNCHANGED <<owed, slice>>

ProduceOn(t) ==
    /\ boot = "up" /\ Running(CoreOf(t))
    /\ \/ Log(t)
       \/ Produce(t) /\ owed' = owed \ Overwritten /\ UNCHANGED slice
    /\ UNCHANGED <<bootVars, coreVars, crumbVars>>

DrainOn ==
    /\ boot = "up" /\ Running("PRO")
    /\ Drain
    /\ slice' = IF dpc = "read" THEN scratch' ELSE slice
    /\ owed' = IF dpc = "send" THEN owed \ Range(scratch) ELSE owed
    /\ UNCHANGED <<bootVars, coreVars, crumbVars>>

-----------------------------------------------------------------------------
(* on_panic, on one core while the other one may run or panic as well.     *)

At(core, label) == stage' = [stage EXCEPT ![core] = label]

Panic(core) ==
    /\ Running(core) /\ (core = "APP" => boot = "up")
    /\ panics < plan.panics
    /\ panics' = panics + 1
    /\ panic' = [panic EXCEPT ![core] = panics + 1]
    /\ At(core, "crumb")
    /\ pc' = [t \in Producers |-> IF CoreOf(t) = core THEN "idle" ELSE pc[t]]
    /\ line' = [t \in Producers |-> IF CoreOf(t) = core THEN 0 ELSE line[t]]
    /\ IF core = "PRO"
       THEN /\ dpc' = "read" /\ scratch' = << >>
            /\ waiter' = NoTask /\ asleep' = {}
       ELSE UNCHANGED <<dpc, scratch, waiter, asleep>>
    /\ UNCHANGED <<ring, left, drainSig, spaceSig, accum, reported, taken, newest,
                   bootVars, chunk, gaveUp, crumbVars, owed, slice>>

\* A store of the core's words over the crumb that is there: all of them, or
\* those that got through.
Store(core, through) ==
    [w \in Words |-> IF w \notin through THEN crumb[w]
                     ELSE IF w = "magic" THEN TRUE ELSE panic[core]]

\* write_panic_crumb: a plain store of several words.  Where the other core is
\* at it too, the words may be of both.
WriteCrumb(core) ==
    /\ stage[core] = "crumb"
    /\ \/ crumb' = Store(core, Words)
       \/ /\ \A c \in Cores : ~Running(c)
          /\ crumb' = Store(core, {"magic", "reason"})
    /\ due' = panic[core]
    /\ At(core, "push")
    /\ UNCHANGED <<vars, bootVars, panic, panics, chunk, gaveUp, told, before, torn, owed, slice>>

\* The line goes into the ring like any other, over the oldest bytes.
PanicPush(core) ==
    /\ stage[core] = "push"
    /\ ring' = Write(ring, NewBytes(PanicLen))
    /\ owed' = (owed \ Overwritten) \cup Range(NewBytes(PanicLen))
    /\ At(core, "read")
    /\ UNCHANGED <<prodVars, sigVars, drainVars, bootVars, panic, panics, chunk, gaveUp,
                   crumbVars, slice>>

\* The ring without the slice; the drop count stays with the drain.
AfterPanicRead == [AfterRead(ring, PanicChunk) EXCEPT !.dropped = ring.dropped]

\* Mutant: a slice shorter than the chunk is taken for the last one.
PanicReadShortIsLast(core) ==
    /\ stage[core] = "read"
    /\ LET bytes == ReadBytes(ring, PanicChunk)
       IN  /\ chunk' = [chunk EXCEPT ![core] = bytes]
           /\ At(core, IF Len(bytes) < PanicChunk THEN "halted" ELSE "poke")
           /\ slice' = bytes
           /\ taken' = taken + Len(bytes)
           /\ newest' = IF bytes = << >> THEN newest ELSE Last(bytes)
    /\ ring' = AfterPanicRead
    /\ UNCHANGED <<prodVars, sigVars, dpc, scratch, accum, reported,
                   bootVars, panic, panics, gaveUp, crumbVars, owed>>

\* The next slice of the ring, or none and the core halts.
PanicRead(core) ==
    /\ stage[core] = "read"
    /\ LET bytes == ReadBytes(ring, PanicChunk)
       IN  /\ chunk' = [chunk EXCEPT ![core] = bytes]
           /\ At(core, IF bytes = << >> THEN "halted" ELSE "poke")
           /\ slice' = bytes
           /\ taken' = taken + Len(bytes)
           /\ newest' = IF bytes = << >> THEN newest ELSE Last(bytes)
    /\ ring' = AfterPanicRead
    /\ UNCHANGED <<prodVars, sigVars, dpc, scratch, accum, reported,
                   bootVars, panic, panics, gaveUp, crumbVars, owed>>

\* boot_panic_write waits for room in the FIFO, and gives the chunk up when
\* the transport takes nothing for too long.
Poke(core) ==
    /\ stage[core] = "poke"
    /\ chunk' = [chunk EXCEPT ![core] = << >>]
    /\ \/ owed' = owed \ Range(chunk[core]) /\ UNCHANGED gaveUp
       \/ gaveUp' = TRUE /\ UNCHANGED owed
    /\ At(core, "read")
    /\ UNCHANGED <<vars, bootVars, panic, panics, crumbVars, slice>>

PanicStep(core) == WriteCrumb(core) \/ PanicPush(core) \/ PanicRead(core) \/ Poke(core)

-----------------------------------------------------------------------------
(* A reset: the watchdog's, a tool's, or a power cycle, which alone clears *)
(* RTC memory.                                                             *)

Reset ==
    /\ boots < plan.boots
    /\ boots' = boots + 1 /\ boot' = "crumb"
    /\ ring' = EmptyRing
    /\ pc' = [t \in Producers |-> "idle"] /\ line' = [t \in Producers |-> 0]
    /\ drainSig' = FALSE /\ spaceSig' = FALSE /\ waiter' = NoTask /\ asleep' = {}
    /\ dpc' = "read" /\ scratch' = << >> /\ accum' = 0
    /\ reported' = 0 /\ taken' = 0 /\ newest' = 0
    /\ stage' = [c \in Cores |-> "running"]
    /\ panic' = [c \in Cores |-> NoPanic]
    /\ chunk' = [c \in Cores |-> << >>]
    /\ gaveUp' = FALSE
    /\ told' = NoCrumb /\ due' = NoPanic
    /\ owed' = {} /\ slice' = << >>
    /\ \/ /\ before' = IF due # NoPanic THEN due
                       ELSE IF boot = "crumb" THEN before ELSE NoPanic
          /\ torn' = (\/ \A c \in Cores : ~Running(c)
                      \/ \E c \in Cores : stage[c] = "crumb"
                      \/ boot = "crumb" /\ ~Panicked /\ torn)
          /\ \/ UNCHANGED crumb
             \/ \E c \in Cores, through \in SUBSET Words :
                    stage[c] = "crumb" /\ crumb' = Store(c, through)
       \/ /\ before' = NoPanic /\ torn' = FALSE
          /\ crumb' = [magic |-> FALSE, reason |-> NoPanic, file |-> NoPanic]
    /\ left' = 0    \* bound: only the first boot logs more than its identity
    /\ UNCHANGED <<plan, panics>>

-----------------------------------------------------------------------------
BNext ==
    \/ TakeCrumb \/ Install
    \/ DrainOn \/ \E t \in Producers : ProduceOn(t)
    \/ \E core \in Cores : Panic(core) \/ PanicStep(core)
    \/ Reset

\* A task that can run is polled, and the sink takes what it is given; nothing
\* promises a line, a panic, its end or a reset.
BFairness ==
    /\ WF_allVars(TakeCrumb \/ Install \/ DrainOn)
    /\ \A t \in Producers : WF_allVars(pc[t] # "idle" /\ ProduceOn(t))

BSpec == BInit /\ [][BNext]_allVars /\ BFairness

-----------------------------------------------------------------------------
(* Properties.                                                             *)

\* Index arithmetic, overwriting, chunked reads by two readers and the drop
\* count together amount to a bounded queue that loses only its oldest bytes
\* and counts them, until a reset empties it.
Queue == INSTANCE OverwriteQueue WITH
             Capacity <- RING_SIZE,
             MaxLine  <- RING_SIZE,
             queue    <- Contents(ring),
             lost     <- Lost,
             batch    <- slice

KeepsNewest == Queue!Spec

\* Whenever the drain goes idle, every gap in what the host has received has
\* been announced: dropped bytes never masquerade as a clean gap.
GapsMarked ==
    dpc = "deliver" /\ scratch = << >> /\ ~Panicked => newest - taken <= reported

\* A written byte never stays in the ring for want of a wake-up, and a loss
\* never goes unreported.
Drained == []<>(Panicked \/ (Used(ring) = 0 /\ Lost = reported))

\* Once the loggers fall silent every send_line returns, also when several wait
\* on a signal that holds one waker: no lost wake-up.
DumpsFinish == \A t \in Dumpers : pc[t] # "idle" ~> pc[t] = "idle" \/ Panicked

\* A core that has halted alone has got its whole line out past a dead drain,
\* or a drain that lives has the rest of it in hand; only a transport that
\* takes nothing, or lines written over it since, cost bytes of it.
PanicTold ==
    /\ Panicked /\ \A c \in Cores : stage[c] \in {"running", "halted"}
    /\ \E c \in Cores : Running(c)
    /\ ~gaveUp
    => owed \subseteq (IF Running("PRO") THEN Range(scratch) ELSE {})

\* A boot is told of the last panic of the run before it, with the location and
\* the digest of one panic, and never of one a boot was told of already, unless
\* both cores panicked or the reset came in the middle of the store.
CrumbTrue ==
    boot # "crumb" /\ ~torn => told = [reason |-> before, file |-> before]

\* No record the filter spec asks for is held back, by the gate of the macros,
\* the default level or the directives (a directive below the default does not
\* silence its target, whatever the spec says).
FilterLetsThrough == Passes[plan.filter]
=============================================================================
